---- MODULE Spec2Model ----
(***************************************************************************)
(* Model of mdi_llmkit.json_surgery: the iterative JSON-surgery session    *)
(* (json_surgery.py), its path navigation (placemarked_json.py) and the    *)
(* tagged-value decoding.  Python objects live in a heap of cells so that  *)
(* object identity, aliasing and in-place mutation are part of the model.  *)
(***************************************************************************)
EXTENDS Integers, Sequences, FiniteSets, TLC

(***************************************************************************)
(* Bounds of the model.                                                    *)
(***************************************************************************)
\* number of heap cells (dict / list objects alive at the same time)
MaxLoc == 26
\* largest value of give_up_after_iterations explored
MaxGiveUp == 1
\* largest reading of int(time.time() - time_started); the reading is a
\* local of the iteration top, taken anew in every iteration
MaxSeconds == 2
\* longest batch of modifications in one formalization reply
MaxBatch == 2

\* longest batch of the specification of single batches
MaxOpBatch == 2
\* longest json_path handed to navigate_to_json_path on its own
MaxPathLen == 3
\* largest retry_limit handed to gpt_submit
MaxRetry == 3
\* number of submit calls made on one conversation
MaxSubmits == 2
\* longest list handed to compare_item_lists
MaxItems == 2

\* The model stops starting iterations here (sessions without a budget are
\* unbounded in the code); one more than the largest explored budget, so a
\* session with a budget always reaches its give-up iteration.
IterCap == MaxGiveUp + 1

(***************************************************************************)
(* JSON values.  A primitive is itself; a dict or a list is a reference    *)
(* to a heap cell.                                                         *)
(***************************************************************************)
Null == [k |-> "null"]
Num(n) == [k |-> "num", n |-> n]
Str(s) == [k |-> "str", s |-> s]
Bool(b) == [k |-> "bool", b |-> b]
Ref(l) == [k |-> "ref", loc |-> l]

Free == [k |-> "free"]
DictCell(f) == [k |-> "dict", f |-> f]
ListCell(items) == [k |-> "list", items |-> items]
EmptyFcn == <<>>

Loc == 1..MaxLoc
EmptyHeap == [l \in Loc |-> Free]

IsRef(v) == v.k = "ref"
IsDict(h, v) == IsRef(v) /\ h[v.loc].k = "dict"
IsList(h, v) == IsRef(v) /\ h[v.loc].k = "list"

\* only None taken for falsy
IsNotNone(h, v) == v.k # "null"

\* Python truthiness of a value (bool(x)).
Truthy(h, v) ==
    CASE v.k = "null" -> FALSE
      [] v.k = "bool" -> v.b
      [] v.k = "num" -> v.n # 0
      [] v.k = "str" -> v.s # ""
      [] v.k = "ref" -> IF h[v.loc].k = "dict"
                        THEN DOMAIN h[v.loc].f # {}
                        ELSE Len(h[v.loc].items) > 0

(***************************************************************************)
(* Structural value of a heap value: the tree json.dumps walks.            *)
(***************************************************************************)
RECURSIVE ToTree(_, _)
ToTree(h, v) ==
    IF ~IsRef(v) THEN v
    ELSE LET c == h[v.loc] IN
         IF c.k = "dict"
         THEN [k |-> "dict", f |-> [key \in DOMAIN c.f |-> ToTree(h, c.f[key])]]
         ELSE [k |-> "list",
               items |-> [i \in 1..Len(c.items) |-> ToTree(h, c.items[i])]]

\* json.dumps turns a non-string dict key into its string form.
JsonKey(key) == IF key.k = "num" THEN Str(ToString(key.n)) ELSE key

\* json.loads(json.dumps(tree)) on trees.  When an integer key and its
\* string form are both present the later-inserted one wins in Python; in
\* this model a decimal string key only ever arises from this conversion,
\* so the integer key is the later one.
RECURSIVE JsonRoundTrip(_)
JsonRoundTrip(t) ==
    IF t.k = "dict" THEN
        LET keys == {JsonKey(key) : key \in DOMAIN t.f}
            src(sk) == IF \E key \in DOMAIN t.f : key.k = "num" /\ JsonKey(key) = sk
                       THEN CHOOSE key \in DOMAIN t.f : key.k = "num" /\ JsonKey(key) = sk
                       ELSE sk
        IN [k |-> "dict", f |-> [sk \in keys |-> JsonRoundTrip(t.f[src(sk)])]]
    ELSE IF t.k = "list" THEN
        [k |-> "list", items |-> [i \in 1..Len(t.items) |-> JsonRoundTrip(t.items[i])]]
    ELSE t

(***************************************************************************)
(* Allocation of a tree as fresh cells.                                    *)
(***************************************************************************)
\* the first free cell from l on (the heap is large enough for every run)
RECURSIVE FirstFree(_, _)
FirstFree(h, l) == IF h[l] = Free THEN l ELSE FirstFree(h, l + 1)
NewLoc(h) == FirstFree(h, 1)

\* F(x) for the value of x, which is worked out once
With(F(_), x) == CHOOSE y \in {F(e) : e \in {x}} : TRUE

RECURSIVE Alloc(_, _), AllocItems(_, _, _), AllocFields(_, _, _)
Alloc(h, t) ==
    IF t.k = "list" THEN
        LET l == NewLoc(h)
            Filled(r) == [h |-> [r.h EXCEPT ![l] = ListCell(r.vs)], v |-> Ref(l)]
        IN With(Filled, AllocItems([h EXCEPT ![l] = ListCell(<<>>)], t.items, 1))
    ELSE IF t.k = "dict" THEN
        LET l == NewLoc(h)
            Filled(r) == [h |-> [r.h EXCEPT ![l] = DictCell(r.f)], v |-> Ref(l)]
        IN With(Filled, AllocFields([h EXCEPT ![l] = DictCell(EmptyFcn)], t.f, DOMAIN t.f))
    ELSE [h |-> h, v |-> t]
AllocItems(h, ts, i) ==
    IF i > Len(ts) THEN [h |-> h, vs |-> <<>>]
    ELSE LET Rest(a) ==
                 LET Joined(r) == [h |-> r.h, vs |-> <<a.v>> \o r.vs]
                 IN With(Joined, AllocItems(a.h, ts, i + 1))
         IN With(Rest, Alloc(h, ts[i]))
AllocFields(h, f, ks) ==
    IF ks = {} THEN [h |-> h, f |-> EmptyFcn]
    ELSE LET key == CHOOSE x \in ks : TRUE
             Rest(a) ==
                 LET Joined(r) == [h |-> r.h, f |-> (key :> a.v) @@ r.f]
                 IN With(Joined, AllocFields(a.h, f, ks \ {key}))
         IN With(Rest, Alloc(h, f[key]))

\* the copy forgotten: the same object under another name
_alias_json(h, v) == [h |-> h, v |-> v]

\* json.loads(json.dumps(value)): a fresh, structurally equal value.
_deep_copy_json(h, v) ==
    LET Copy(from) == LET Fresh(t) == Alloc(from.h, t)
                      IN With(Fresh, JsonRoundTrip(ToTree(from.h, from.v)))
    IN With(Copy, [h |-> h, v |-> v])

(***************************************************************************)
(* Reachability and reclamation of cells no reference leads to.            *)
(***************************************************************************)
Children(h, l) ==
    LET c == h[l] IN
    IF c.k = "dict" THEN {c.f[key].loc : key \in {x \in DOMAIN c.f : IsRef(c.f[x])}}
    ELSE IF c.k = "list" THEN {c.items[i].loc : i \in {j \in 1..Len(c.items) : IsRef(c.items[j])}}
    ELSE {}

RECURSIVE ReachFrom(_, _, _)
ReachFrom(h, frontier, seen) ==
    IF frontier = {} THEN seen
    ELSE LET next == (UNION {Children(h, l) : l \in frontier}) \ (seen \cup frontier)
         IN ReachFrom(h, next, seen \cup frontier)

Reach(h, vs) == ReachFrom(h, {v.loc : v \in {x \in vs : IsRef(x)}}, {})

Collect(h, roots) ==
    LET live == Reach(h, roots)
    IN [l \in Loc |-> IF l \in live THEN h[l] ELSE Free]

(***************************************************************************)
(* Python exceptions raised while one modification is applied.             *)
(***************************************************************************)
Ok(v) == [ok |-> TRUE, v |-> v, err |-> "", at |-> Null]
Raise(type, at) == [ok |-> FALSE, v |-> Null, err |-> type, at |-> at]

\* The length of a Python list and the 1-based position of index n in it
\* (a negative index counts from the end); 0 when n is out of range.
PyPos(len, n) ==
    IF n >= 0 /\ n < len THEN n + 1
    ELSE IF n < 0 /\ n >= -len THEN len + n + 1
    ELSE 0

\* a key that a dict does not have read as None, as dict.get does
MissingKeyAsNone(key) == Ok(Null)

\* d[key] for a dict d without the key
MissingKey(key) == Raise("KeyError", key)

\* parent[key] for a truthy parent.  Strings of the model have at most one
\* character, so s[0] and s[-1] are s itself.
Subscript(h, parent, key) ==
    IF IsDict(h, parent) THEN
        IF key \in DOMAIN h[parent.loc].f THEN Ok(h[parent.loc].f[key])
        ELSE MissingKey(key)
    ELSE IF IsList(h, parent) THEN
        IF key.k # "num" THEN Raise("TypeError", key)
        ELSE IF PyPos(Len(h[parent.loc].items), key.n) = 0 THEN Raise("IndexError", key)
        ELSE Ok(h[parent.loc].items[PyPos(Len(h[parent.loc].items), key.n)])
    ELSE IF parent.k = "str" THEN
        IF key.k # "num" THEN Raise("TypeError", key)
        ELSE IF PyPos(Len(parent.s), key.n) = 0 THEN Raise("IndexError", key)
        ELSE Ok(parent)
    ELSE Raise("TypeError", key)

\* the parent forgotten
NavResultWithoutParent(parent, key, target) ==
    [ok |-> TRUE, err |-> "", at |-> Null,
     path_parent |-> Null, path_key_or_index |-> key, path_target |-> target]

\* lines 104-108: the dict that navigate_to_json_path returns
NavResult(parent, key, target) ==
    [ok |-> TRUE, err |-> "", at |-> Null,
     path_parent |-> parent, path_key_or_index |-> key, path_target |-> target]
NavError(type, at) ==
    [ok |-> FALSE, err |-> type, at |-> at,
     path_parent |-> Null, path_key_or_index |-> Null, path_target |-> Null]

RECURSIVE NavigateFrom(_, _, _, _, _, _)
NavigateFrom(h, json_path, i, path_parent, path_key_or_index, path_target) ==
    IF i > Len(json_path) THEN NavResult(path_parent, path_key_or_index, path_target)
    ELSE IF ~Truthy(h, path_target) THEN NavError("CouldNotNavigate", json_path[i])
    ELSE LET s == Subscript(h, path_target, json_path[i]) IN
         IF ~s.ok THEN NavError(s.err, s.at)
         ELSE NavigateFrom(h, json_path, i + 1, path_target, json_path[i], s.v)

navigate_to_json_path(h, root, json_path) ==
    NavigateFrom(h, json_path, 1, Null, Null, root)

(***************************************************************************)
(* Tagged value envelopes and their decoding.                              *)
(***************************************************************************)
EnvPrim(tag, v) == [tag |-> tag, v |-> v, items |-> <<>>, pairs |-> <<>>]
EnvArray(items) == [tag |-> "populated_array", v |-> Null, items |-> items, pairs |-> <<>>]
EnvObject(pairs) == [tag |-> "populated_object", v |-> Null, items |-> <<>>, pairs |-> pairs]

\* an envelope without a known tag taken for null
InvalidValueObjectAsNull(value) == Ok(Null)

\* line 169: raise ValueError(f"Invalid value object: {json.dumps(value)}")
InvalidValueObject(value) == Raise("ValueError", Str("Invalid value object"))

RECURSIVE _unpack_value_from_set_value_schema(_), UnpackItems(_, _), UnpackPairs(_, _)
_unpack_value_from_set_value_schema(value) ==
    CASE value.tag \in {"string_value", "numerical_value", "boolean_value"} -> Ok(value.v)
      [] value.tag = "null_value" -> Ok(Null)
      [] value.tag = "empty_object" -> Ok([k |-> "dict", f |-> EmptyFcn])
      [] value.tag = "empty_array" -> Ok([k |-> "list", items |-> <<>>])
      [] value.tag = "populated_array" -> UnpackItems(value.items, 1)
      [] value.tag = "populated_object" -> UnpackPairs(value.pairs, Len(value.pairs))
      [] OTHER -> InvalidValueObject(value)
\* the list comprehension over value["populated_array"]
UnpackItems(items, i) ==
    IF i > Len(items) THEN Ok([k |-> "list", items |-> <<>>])
    ELSE LET a == _unpack_value_from_set_value_schema(items[i])
             r == UnpackItems(items, i + 1)
         IN IF ~a.ok THEN a
            ELSE IF ~r.ok THEN r
            ELSE Ok([k |-> "list", items |-> <<a.v>> \o r.v.items])
\* the loop over key_value_pairs: pairs 1..n in order, a later pair
\* overwriting an earlier one with the same key
UnpackPairs(pairs, n) ==
    IF n = 0 THEN Ok([k |-> "dict", f |-> EmptyFcn])
    ELSE LET r == UnpackPairs(pairs, n - 1)
             a == _unpack_value_from_set_value_schema(pairs[n].value)
         IN IF ~r.ok THEN r
            ELSE IF ~a.ok THEN a
            ELSE Ok([k |-> "dict", f |-> (Str(pairs[n].key) :> a.v) @@ r.v.f])

(***************************************************************************)
(* One modification of a batch (the body of the try block).                *)
(***************************************************************************)
DataNone == [t |-> "none", inline_value |-> EnvPrim("null_value", Null),
             json_path_of_copy_source |-> <<>>]
DataInline(env) == [t |-> "inline_value", inline_value |-> env,
                    json_path_of_copy_source |-> <<>>]
DataCopy(path) == [t |-> "json_path_of_copy_source",
                   inline_value |-> EnvPrim("null_value", Null),
                   json_path_of_copy_source |-> path]

\* A modification as the collaborator formalizes it; has_path is FALSE when
\* the reply lacks json_path_of_parent (modification.get gives None).
Modification(path, key, action, new_key_name, data) ==
    [has_path |-> TRUE, json_path_of_parent |-> path, key_or_index |-> key,
     action |-> action, new_key_name |-> new_key_name, data |-> data]

\* int(key_or_index)
DecimalInts == -9..9
PyInt(key) ==
    IF key.k = "num" THEN Ok(key.n)
    ELSE IF key.k = "str" THEN
        IF \E n \in DecimalInts : ToString(n) = key.s
        THEN Ok(CHOOSE n \in DecimalInts : ToString(n) = key.s)
        ELSE Raise("ValueError", key)
    ELSE Raise("TypeError", key)

ApplyOk(h) == [ok |-> TRUE, h |-> h, err |-> "", at |-> Null]
ApplyFail(h, type, at) == [ok |-> FALSE, h |-> h, err |-> type, at |-> at]

SeqRemove(s, p) == SubSeq(s, 1, p - 1) \o SubSeq(s, p + 1, Len(s))
SeqInsert(s, p, v) == SubSeq(s, 1, p - 1) \o <<v>> \o SubSeq(s, p, Len(s))
\* the value always put at the end
PyInsertAtEnd(len, n) == len + 1

\* list.insert(i, v) clamps i into the list: the 1-based position of v
PyInsertPos(len, n) ==
    IF n >= len THEN len + 1
    ELSE IF n >= 0 THEN n + 1
    ELSE IF n >= -len THEN len + n + 1
    ELSE 1
\* the key left where it is
DictKeep(f, key) == f

\* target_parent.pop(key, None): no error when the key is absent
DictRemove(f, key) == [x \in DOMAIN f \ {key} |-> f[x]]

\* a key that is present keeps its value
DictSetDefault(f, key, value) == f @@ (key :> value)

\* line 661 on a dict: target_parent[key_or_index] = value
DictAssign(f, key, value) == (key :> value) @@ f

\* the name of a rename not looked at
NeverMissingNewKeyName(action, new_key_name) == FALSE

\* line 644: "if action == 'rename' and not new_key_name"
MissingNewKeyName(action, new_key_name) == action = "rename" /\ new_key_name = ""

\* the target of the copy-source path itself, not a copy of it
CopySourceAliased(h, path_target) == [h |-> h, v |-> path_target]

\* line 638: value = _deep_copy_json(source_nav_result["path_target"])
CopySource(h, path_target) == _deep_copy_json(h, path_target)

\* The value the modification carries: decoded from the inline envelope, or
\* a deep copy of the target of the copy-source path in the scratch copy.
ResolveValue(h, obj_modified, data) ==
    IF data.t = "inline_value" THEN
        LET Decoded(u) ==
                IF ~u.ok THEN ApplyFail(h, u.err, u.at) @@ [value |-> Null]
                ELSE LET Built(a) == ApplyOk(a.h) @@ [value |-> a.v]
                     IN With(Built, Alloc(h, u.v))
        IN With(Decoded, _unpack_value_from_set_value_schema(data.inline_value))
    ELSE IF data.t = "json_path_of_copy_source" THEN
        LET Copied(c) == ApplyOk(c.h) @@ [value |-> c.v]
            Found(source_nav_result) ==
                IF ~source_nav_result.ok
                THEN ApplyFail(h, source_nav_result.err, source_nav_result.at)
                     @@ [value |-> Null]
                ELSE With(Copied, CopySource(h, source_nav_result.path_target))
        IN With(Found, navigate_to_json_path(h, obj_modified, data.json_path_of_copy_source))
    ELSE ApplyOk(h) @@ [value |-> Null]

\* The if / elif chain over action, on a parent that is a dict or a list.
ApplyAction(h, target_parent, modification, value) ==
    LET key_or_index == modification.key_or_index
        action == modification.action
        l == target_parent.loc
        cell == h[l]
        isList == cell.k = "list"
    IN
    CASE action = "assign" ->
            IF isList THEN
                IF key_or_index.k # "num" THEN ApplyFail(h, "TypeError", key_or_index)
                ELSE IF PyPos(Len(cell.items), key_or_index.n) = 0
                THEN ApplyFail(h, "IndexError", key_or_index)
                ELSE ApplyOk([h EXCEPT ![l].items[PyPos(Len(cell.items), key_or_index.n)] = value])
            ELSE ApplyOk([h EXCEPT ![l].f = DictAssign(cell.f, key_or_index, value)])
      [] action = "delete" ->
            IF isList THEN
                LET n == PyInt(key_or_index) IN
                IF ~n.ok THEN ApplyFail(h, n.err, n.at)
                ELSE IF PyPos(Len(cell.items), n.v) = 0
                THEN ApplyFail(h, "IndexError", key_or_index)
                ELSE ApplyOk([h EXCEPT ![l].items = SeqRemove(cell.items, PyPos(Len(cell.items), n.v))])
            ELSE ApplyOk([h EXCEPT ![l].f = DictRemove(cell.f, key_or_index)])
      [] action = "append" ->
            IF ~isList THEN ApplyFail(h, "ValueError", Str("append action can only be applied to arrays"))
            ELSE ApplyOk([h EXCEPT ![l].items = Append(cell.items, value)])
      [] action = "insert" ->
            IF ~isList THEN ApplyFail(h, "ValueError", Str("insert action can only be applied to arrays"))
            ELSE LET n == PyInt(key_or_index) IN
                 IF ~n.ok THEN ApplyFail(h, n.err, n.at)
                 ELSE ApplyOk([h EXCEPT ![l].items =
                                 SeqInsert(cell.items, PyInsertPos(Len(cell.items), n.v), value)])
      [] action = "rename" ->
            IF isList THEN ApplyFail(h, "ValueError", Str("rename action can only be applied to objects"))
            ELSE LET new_key == Str(modification.new_key_name)
                     got == IF key_or_index \in DOMAIN cell.f THEN cell.f[key_or_index] ELSE Null
                 IN ApplyOk([h EXCEPT ![l].f = DictRemove((new_key :> got) @@ cell.f, key_or_index)])
      [] OTHER -> ApplyFail(h, "ValueError", Str("Unknown action"))

\* lines 654-657: "json_path_of_parent must point to an object or array.
\* Instead got: {json.dumps(target_parent)}"
InsteadGot(target_parent) ==
    [k |-> "str", s |-> "json_path_of_parent must point to an object or array",
     dumped |-> target_parent]

\* The whole try block for one modification against the scratch copy.
ApplyModification(h, obj_modified, modification) ==
    LET Located(r, json_path_nav_result) ==
            IF ~json_path_nav_result.ok
            THEN ApplyFail(r.h, json_path_nav_result.err, json_path_nav_result.at)
            ELSE LET target_parent == json_path_nav_result.path_target IN
                 IF ~IsRef(target_parent)
                 THEN ApplyFail(r.h, "ValueError", InsteadGot(target_parent))
                 ELSE ApplyAction(r.h, target_parent, modification, r.value)
        Resolved(r) ==
            IF ~r.ok THEN ApplyFail(r.h, r.err, r.at)
            ELSE IF ~modification.has_path
            THEN ApplyFail(r.h, "ValueError", Str("Missing required field json_path_of_parent"))
            ELSE IF modification.action = ""
            THEN ApplyFail(r.h, "ValueError", Str("Missing required field action"))
            ELSE IF MissingNewKeyName(modification.action, modification.new_key_name)
            THEN ApplyFail(r.h, "ValueError",
                           Str("Missing required field new_key_name for rename"))
            ELSE LET Navigated(json_path_nav_result) == Located(r, json_path_nav_result)
                 IN With(Navigated, navigate_to_json_path(r.h, obj_modified,
                                                          modification.json_path_of_parent))
    IN With(Resolved, ResolveValue(h, obj_modified, modification.data))

(***************************************************************************)
(* The session: json_surgery(openai_client, obj, instructions, options).   *)
(***************************************************************************)
VARIABLES
    heap,                          \* the Python heap: cells of dicts and lists
    input,                         \* the caller's object (argument obj)
    options,                       \* the options of the call
    obj,                           \* the current snapshot (local obj)
    obj_modified,                  \* the scratch copy of the current batch
    modifications,                 \* the operations of the batch not yet attempted
    operations_done_so_far,        \* the operation history log
    operation_last,
    operation_next,
    operation_last_was_successful,
    num_iterations,
    pc,                            \* position of the session in json_surgery
    result,                        \* how the call ended: value returned or error raised
    caller_kept,                   \* an object the caller's callbacks hold on to
    \* history variables, read by the properties only
    input_before,                  \* structure of the caller's object at the call
    batch_start,                   \* structure of obj when the scratch copy was made
    batch_failed,                  \* some operation of the batch failed to apply
    last_outcome,                  \* how the last finished iteration ended
    exit_gate,                     \* what the exit gate of this iteration saw
    wip,                           \* what on_work_in_progress did in this iteration
    raised_from,                   \* structure of obj when JSONSurgeryError was raised
    n_propose,                     \* number of proposal requests submitted
    caller_poked,                  \* the caller mutated its object after the call ended
    n_submit,                      \* number of requests submitted to the collaborator
    n_wip,                         \* number of calls of on_work_in_progress
    n_validate,                    \* number of calls of on_validate_before_return
    callback_raised,               \* the callback that raised an exception, if any
    batch,                         \* the modifications of the formalization reply
    op_reports,                    \* the messages the loop over the batch added
    op_before,                     \* structure of obj_modified before the last attempt
    status,                        \* the status messages added at the top of this iteration
    requests,                      \* the requests submitted to the collaborator, in order
    \* a function studied on its own (placemarked_json.py, functions.py)
    call,                          \* the function called and its arguments
    frame                          \* its local state and its outcome

program_vars == <<heap, input, options, obj, obj_modified, modifications,
                  operations_done_so_far, operation_last, operation_next,
                  operation_last_was_successful, num_iterations,
                  pc, result, caller_kept>>
program_vars_but_heap == <<input, options, obj, obj_modified, modifications,
                           operations_done_so_far, operation_last, operation_next,
                           operation_last_was_successful, num_iterations,
                           pc, result, caller_kept>>
history_vars == <<input_before, batch_start, batch_failed, last_outcome, exit_gate,
                  wip, raised_from, n_propose, caller_poked>>
call_vars == <<n_submit, n_wip, n_validate, callback_raised>>
batch_vars == <<batch, op_reports, op_before>>
convo_vars == <<status, requests>>
aux_vars == <<call, frame>>
vars == <<program_vars, history_vars, call_vars, batch_vars, convo_vars, aux_vars>>

\* An option that options.get may find absent (None).
Absent == [set |-> FALSE, v |-> 0]
Given(n) == [set |-> TRUE, v |-> n]
\* an option that is 0 taken as a budget of 0
OptionGiven(o) == o.set

\* "if option and ...": None and 0 are both falsy
OptionTruthy(o) == o.set /\ o.v # 0

(***************************************************************************)
(* The inputs explored.                                                    *)
(***************************************************************************)
TDict(f) == [k |-> "dict", f |-> f]
TList(items) == [k |-> "list", items |-> items]

\* documents the caller passes in; Null is Python's None
InputDocs ==
    { TDict(Str("a") :> TDict(Str("x") :> Num(1))),
      TList(<<Num(1)>>),
      Null }

\* error lists on_validate_before_return reports
ErrorLists == { <<"e1">>, <<"e1", "e2">> }

\* modifications the collaborator formalizes
Ops ==
    { Modification(<<Str("a")>>, Str("x"), "assign", "",
                   DataInline(EnvPrim("numerical_value", Num(7)))),
      Modification(<<>>, Str("c"), "assign", "", DataCopy(<<Str("a")>>)),
      Modification(<<>>, Num(-1), "append", "", DataInline(EnvPrim("string_value", Str("v")))) }

RECURSIVE SeqsUpTo(_, _)
SeqsUpTo(S, n) ==
    IF n = 0 THEN { <<>> }
    ELSE LET shorter == SeqsUpTo(S, n - 1)
         IN shorter \cup { Append(q, x) : q \in shorter, x \in S }
\* replies to the formalization request; the empty list means "we are done"
Batches == SeqsUpTo(Ops, MaxBatch)

OptionSets ==
    [ skipped_keys : { {} },
      on_validate_before_return : BOOLEAN,
      on_work_in_progress : BOOLEAN,
      give_up_after_seconds : { Absent, Given(0), Given(1) },
      give_up_after_iterations : { Absent } \cup { Given(n) : n \in 0..MaxGiveUp } ]

(***************************************************************************)
(* Results and history entries.                                            *)
(***************************************************************************)
NoResult == [kind |-> "none", value |-> Null, message |-> ""]
Returned(v) == [kind |-> "returned", value |-> v, message |-> ""]
Exception(kind) == [kind |-> kind, value |-> Null, message |-> ""]

\* the error keeps the object it was given
JSONSurgeryErrorKeepsObject(h, message, o) ==
    [h |-> h, error |-> [kind |-> "JSONSurgeryError", value |-> o, message |-> message]]

\* JSONSurgeryError(message, obj): self.obj = json.loads(json.dumps(obj))
JSONSurgeryError(h, message, o) ==
    LET Carrying(c) ==
            [h |-> c.h,
             error |-> [kind |-> "JSONSurgeryError", value |-> c.v, message |-> message]]
    IN With(Carrying, _deep_copy_json(h, o))

Entry(kind, errors) == [kind |-> kind, errors |-> errors]
NothingYet == Entry("(nothing, we just started)", <<>>)

NoGate == [attempted |-> FALSE, validated |-> FALSE, errors |-> <<>>,
           has_corrected |-> FALSE, corrected |-> Null]
\* seconds_elapsed is the clock reading of line 395 in the iteration that
\* gave up
NoWip == [called |-> FALSE, replaced |-> FALSE, returned |-> Null, seconds_elapsed |-> 0]
\* iteration 1 adds no status messages
NoStatus == [given |-> FALSE, operations |-> 0, iterations |-> 0, log |-> <<>>,
             operation_last |-> NothingYet, operation_next |-> "", warned |-> FALSE]
NoCall == [fn |-> "none"]
NoFrame == [pc |-> "none"]

Roots == {input, obj, obj_modified, caller_kept, result.value}

(***************************************************************************)
(* The caller's code: what a callback may do with the value handed to it.  *)
(***************************************************************************)
\* an in-place mutation by the caller of an object it holds: it sets the
\* key "p" of a dict (or deletes it when it is there), it appends 9 to a list
\* (or removes it when it is the last item)
Poke(h, v) ==
    IF IsDict(h, v) THEN
        IF Str("p") \in DOMAIN h[v.loc].f
        THEN [h EXCEPT ![v.loc].f = DictRemove(@, Str("p"))]
        ELSE [h EXCEPT ![v.loc].f = (Str("p") :> Num(9)) @@ @]
    ELSE IF IsList(h, v) THEN
        IF Len(h[v.loc].items) > 0 /\ h[v.loc].items[Len(h[v.loc].items)] = Num(9)
        THEN [h EXCEPT ![v.loc].items = SubSeq(@, 1, Len(@) - 1)]
        ELSE [h EXCEPT ![v.loc].items = Append(@, Num(9))]
    ELSE h

\* What a callback does before it returns: whether it mutates the object it
\* kept from an earlier call, whether it mutates the value handed to it, and
\* what it gives back: nothing ("none"), the value handed to it ("handed"),
\* the caller's own input object ("input"), or an exception ("raise").
CallbackBehaviours(gives) ==
    [poke_kept : BOOLEAN, poke_handed : BOOLEAN, gives : gives]
Quiet == [poke_kept |-> FALSE, poke_handed |-> FALSE, gives |-> "none"]

\* The callback's run: the heap after it, the value given back, and the
\* object the caller holds on to afterwards.
RunCallback(h, handed, b) ==
    LET h1 == IF b.poke_kept THEN Poke(h, caller_kept) ELSE h
        h2 == IF b.poke_handed THEN Poke(h1, handed) ELSE h1
    IN CASE b.gives = "handed" -> [h |-> h2, v |-> handed, keep |-> handed]
         [] b.gives = "input" -> [h |-> h2, v |-> input, keep |-> caller_kept]
         [] OTHER -> [h |-> h2, v |-> Null, keep |-> caller_kept]

(***************************************************************************)
(* The decisions of the loop.                                              *)
(***************************************************************************)
\* the housekeeping done on the first iteration too
HousekeepingAlwaysDue(n) == n >= 1

\* line 388: "if num_iterations > 1"
HousekeepingDue(n) == n > 1

\* the value the callback returned dropped
IgnoreWorkInProgress(o, obj_wip_result, copied) == o

\* line 392: "if obj_wip_result is not None: obj = _deep_copy_json(...)"
AfterWorkInProgress(o, obj_wip_result, copied) ==
    IF obj_wip_result # Null THEN copied ELSE o

\* line 397: "if give_up_after_seconds and seconds_elapsed > give_up_after_seconds"
TooLate(give_up_after_seconds, seconds_elapsed) ==
    OptionTruthy(give_up_after_seconds) /\ seconds_elapsed > give_up_after_seconds.v

\* the comparison off by one
TooManyOffByOne(give_up_after_iterations, n) ==
    OptionTruthy(give_up_after_iterations) /\ n > give_up_after_iterations.v + 1

\* the iteration budget never looked at
NeverTooMany(give_up_after_iterations, n) == FALSE

\* line 406: "if give_up_after_iterations and num_iterations > give_up_after_iterations"
TooMany(give_up_after_iterations, n) ==
    OptionTruthy(give_up_after_iterations) /\ n > give_up_after_iterations.v

\* the iteration budget looked at before the seconds budget
GivingUpIterationsFirst(too_late, too_many) == IF too_many THEN "iterations" ELSE "time"

\* lines 397-411: the seconds budget is checked, and raises, before the
\* iteration budget
GivingUp(too_late, too_many) == IF too_late THEN "time" ELSE "iterations"

\* the log left out of the status messages
LogLeftOut(log) == <<>>

\* lines 420-427: every entry of operations_done_so_far, numbered, in order
LogShown(log) == log

\* the warning given after every iteration
AlwaysDoNotRepeat(last_was_successful) == TRUE

\* line 449: "if not operation_last_was_successful"
DoNotRepeat(last_was_successful) == ~last_was_successful

\* lines 413-457: the status messages of iteration n > 1; line 417: "We've
\* performed {len(operations_done_so_far)} operations across
\* {num_iterations - 1} iterations."
StatusMessages(log, last, next, last_was_successful, n) ==
    [given |-> TRUE, operations |-> Len(log), iterations |-> n - 1,
     log |-> LogShown(log), operation_last |-> last,
     operation_next |-> next, warned |-> DoNotRepeat(last_was_successful)]

\* a rejected batch left out of the history
HistoryOfKeptOnly(log, action_desc) ==
    IF action_desc.kind = "FAILED" THEN log ELSE Append(log, action_desc)

\* lines 611 and 794: operations_done_so_far.append(action_desc)
HistoryAfter(log, action_desc) == Append(log, action_desc)

\* an empty formalization treated like a batch
NeverNothingToDo(reply) == FALSE

\* line 584: "if not modifications"
NothingToDo(reply) == reply = <<>>

\* the errors of the validation result ignored
ExitGateAlwaysPasses(validation_errors) == TRUE

\* line 595: "if not validation_errors: return obj"
ExitGatePasses(validation_errors) == validation_errors = <<>>

\* only the first error makes it into the entry
ValidationFailureFirstOnly(validation_errors) ==
    Entry("ERROR: Validation failure on attempted exit.", <<validation_errors[1]>>)

\* lines 599-611: the history entry of a failed exit, one line per error
ValidationFailure(validation_errors) ==
    Entry("ERROR: Validation failure on attempted exit.", validation_errors)

\* the reply ignored, the scratch copy always taken
AlwaysKeepTheseChanges(should_we_keep_these_changes, o, o_modified) == o_modified

\* the reply ignored, the scratch copy never taken
NeverKeepTheseChanges(should_we_keep_these_changes, o, o_modified) == o

\* lines 785-786: "if should_we_keep_these_changes: obj = obj_modified"
KeepTheseChanges(should_we_keep_these_changes, o, o_modified) ==
    IF should_we_keep_these_changes THEN o_modified ELSE o

(***************************************************************************)
(* Initial state: the call is about to be made.                            *)
(***************************************************************************)
Init ==
    \E doc \in InputDocs, opts \in OptionSets :
        LET a == Alloc(EmptyHeap, doc) IN
        /\ heap = a.h
        /\ input = a.v
        /\ options = opts
        /\ obj = Null
        /\ obj_modified = Null
        /\ modifications = <<>>
        /\ operations_done_so_far = <<>>
        /\ operation_last = NothingYet
        /\ operation_next = "(nothing, we just started)"
        /\ operation_last_was_successful = TRUE
        /\ num_iterations = 0
        /\ pc = "call"
        /\ result = NoResult
        /\ caller_kept = Null
        /\ input_before = doc
        /\ batch_start = Null
        /\ batch_failed = FALSE
        /\ last_outcome = "none"
        /\ exit_gate = NoGate
        /\ wip = NoWip
        /\ raised_from = Null
        /\ n_propose = 0
        /\ caller_poked = FALSE
        /\ n_submit = 0
        /\ n_wip = 0
        /\ n_validate = 0
        /\ callback_raised = ""
        /\ batch = <<>>
        /\ op_reports = <<>>
        /\ op_before = Null
        /\ status = NoStatus
        /\ requests = <<>>
        /\ call = NoCall
        /\ frame = NoFrame

\* the exception of a callback caught, the loop going on with the snapshot
PropagateUnlessCallback(kind, h, kept) ==
    /\ pc' = IF kind = "CallbackError" THEN "top" ELSE "error"
    /\ result' = IF kind = "CallbackError" THEN NoResult ELSE Exception(kind)
    /\ heap' = Collect(h, {input, kept} \cup (IF kind = "CallbackError" THEN {obj} ELSE {}))
    /\ obj' = IF kind = "CallbackError" THEN obj ELSE Null
    /\ obj_modified' = Null
    /\ modifications' = <<>>

\* The session ends with an exception that is not JSONSurgeryError; the
\* locals of json_surgery are gone, the caller keeps what it holds.
Propagate(kind, h, kept) ==
    /\ pc' = "error"
    /\ result' = Exception(kind)
    /\ heap' = Collect(h, {input, kept})
    /\ obj' = Null
    /\ obj_modified' = Null
    /\ modifications' = <<>>

(***************************************************************************)
(* Lines 179-382: the None check, the intake copy, the base conversation   *)
(* and the planning request.                                               *)
(***************************************************************************)
Enter ==
    /\ pc = "call"
    /\ UNCHANGED <<input, options, operations_done_so_far, operation_last, operation_next,
                   operation_last_was_successful, num_iterations,
                   caller_kept, history_vars, n_wip, n_validate, callback_raised,
                   batch_vars, status, aux_vars>>
    /\ n_submit' = IF input = Null THEN n_submit ELSE n_submit + 1
    /\ requests' = IF input = Null THEN requests ELSE Append(requests, "plan")
    /\ IF input = Null
       THEN Propagate("ValueError", heap, caller_kept)
       ELSE \E c \in {_deep_copy_json(heap, input)}, planned \in BOOLEAN :
                IF planned
                THEN /\ obj' = c.v
                     /\ heap' = c.h
                     /\ pc' = "top"
                     /\ UNCHANGED <<obj_modified, modifications, result>>
                ELSE Propagate("CollaboratorError", c.h, caller_kept)

(***************************************************************************)
(* Lines 385-457: the top of an iteration.  From the second iteration on:  *)
(* on_work_in_progress, the two budget checks, the status messages.        *)
(***************************************************************************)
WipGives == {"raise", "none", "handed"}

IterationTop ==
    /\ pc = "top"
    /\ num_iterations < IterCap
    /\ num_iterations' = num_iterations + 1
    /\ UNCHANGED <<input, options, operations_done_so_far,
                   operation_last, operation_next, operation_last_was_successful,
                   input_before, batch_start, batch_failed, last_outcome, n_propose,
                   caller_poked, n_submit, n_validate, batch_vars, requests, aux_vars>>
    /\ exit_gate' = NoGate
    /\ IF ~HousekeepingDue(num_iterations + 1)
       THEN /\ pc' = "propose"
            /\ wip' = NoWip
            /\ status' = NoStatus
            /\ UNCHANGED <<heap, obj, obj_modified, modifications,
                           result, caller_kept, raised_from, n_wip, callback_raised>>
       ELSE \E b \in CallbackBehaviours(WipGives), seconds_elapsed \in 0..MaxSeconds :
            \* a session without the callback has only the behaviour "none"
            /\ options.on_work_in_progress \/ b = Quiet
            /\ b.poke_kept => IsRef(caller_kept)
            /\ b.gives = "handed" => b.poke_handed
            /\ \E handed \in {IF options.on_work_in_progress
                               THEN _deep_copy_json(heap, obj)
                               ELSE [h |-> heap, v |-> Null]} :
               \E ran \in {IF options.on_work_in_progress
                            THEN RunCallback(handed.h, handed.v, b)
                            ELSE [h |-> heap, v |-> Null, keep |-> caller_kept]} :
               \E replaced \in {_deep_copy_json(ran.h, ran.v)} :
               LET obj_wip_result == ran.v
                   h1 == IF obj_wip_result # Null THEN replaced.h ELSE ran.h
                   obj1 == AfterWorkInProgress(obj, obj_wip_result, replaced.v)
                   give_up_after_seconds == options.give_up_after_seconds
                   give_up_after_iterations == options.give_up_after_iterations
                   too_late == TooLate(give_up_after_seconds, seconds_elapsed)
                   too_many == TooMany(give_up_after_iterations, num_iterations + 1)
               IN /\ n_wip' = IF options.on_work_in_progress THEN n_wip + 1 ELSE n_wip
                  /\ callback_raised' =
                         IF options.on_work_in_progress /\ b.gives = "raise"
                         THEN "on_work_in_progress" ELSE callback_raised
                  /\ IF options.on_work_in_progress /\ b.gives = "raise"
                     THEN /\ Propagate("CallbackError", ran.h, ran.keep)
                          /\ caller_kept' = ran.keep
                          /\ status' = NoStatus
                          /\ wip' = [called |-> TRUE, replaced |-> FALSE, returned |-> Null,
                                     seconds_elapsed |-> 0]
                          /\ UNCHANGED raised_from
                     ELSE /\ caller_kept' = ran.keep
                          /\ wip' = [called |-> options.on_work_in_progress,
                                     replaced |-> obj_wip_result # Null,
                                     returned |-> ToTree(ran.h, obj_wip_result),
                                     seconds_elapsed |->
                                         IF too_late \/ too_many THEN seconds_elapsed ELSE 0]
                          /\ UNCHANGED <<obj_modified, modifications>>
                          /\ IF too_late \/ too_many
                             THEN \E e \in {JSONSurgeryError(
                                                h1, GivingUp(too_late, too_many),
                                                obj1)} :
                                  /\ pc' = "raised"
                                  /\ status' = NoStatus
                                  /\ result' = e.error
                                  /\ raised_from' = ToTree(h1, obj1)
                                  /\ obj' = obj1
                                  /\ heap' = Collect(e.h, {input, obj1, ran.keep, e.error.value})
                             ELSE /\ pc' = "propose"
                                  /\ status' = StatusMessages(operations_done_so_far,
                                                              operation_last, operation_next,
                                                              operation_last_was_successful,
                                                              num_iterations + 1)
                                  /\ obj' = obj1
                                  /\ heap' = Collect(h1, {input, obj1, ran.keep})
                                  /\ UNCHANGED <<result, raised_from>>

(***************************************************************************)
(* Line 481: the proposal request (plain text).                            *)
(***************************************************************************)
Propose ==
    /\ pc = "propose"
    /\ n_propose' = n_propose + 1
    /\ UNCHANGED <<input, options, operations_done_so_far, operation_last, operation_next,
                   operation_last_was_successful, num_iterations,
                   caller_kept, input_before, batch_start, batch_failed, last_outcome,
                   exit_gate, wip, raised_from, caller_poked,
                   n_wip, n_validate, callback_raised, batch_vars, status, aux_vars>>
    /\ n_submit' = n_submit + 1
    /\ requests' = Append(requests, "propose")
    /\ \E replied \in BOOLEAN :
        IF replied
        THEN /\ pc' = "formalize"
             /\ UNCHANGED <<heap, obj, obj_modified, modifications, result>>
        ELSE Propagate("CollaboratorError", heap, caller_kept)

(***************************************************************************)
(* Lines 483-618: the formalization request, then either the exit gate     *)
(* (no modifications) or the scratch copy for the batch.                   *)
(***************************************************************************)
ValidateGives == {"raise", "none", "errors_only", "handed", "input"}

Formalize ==
    /\ pc = "formalize"
    /\ UNCHANGED <<input, options, num_iterations, input_before, wip,
                   raised_from, n_propose, caller_poked, n_wip, status, aux_vars>>
    /\ n_submit' = n_submit + 1
    /\ requests' = Append(requests, "formalize")
    /\ \E replied \in BOOLEAN :
        IF ~replied
        THEN /\ Propagate("CollaboratorError", heap, caller_kept)
             /\ UNCHANGED <<operations_done_so_far, operation_last, operation_next,
                            operation_last_was_successful, caller_kept, batch_start,
                            batch_failed, last_outcome, exit_gate,
                            n_validate, callback_raised, batch_vars>>
        ELSE \E reply \in Batches :
            IF ~NothingToDo(reply)
            THEN \* line 618: obj_modified = _deep_copy_json(obj)
                 \E c \in {_deep_copy_json(heap, obj)} :
                 /\ obj_modified' = c.v
                 /\ heap' = c.h
                 /\ modifications' = reply
                 /\ batch_start' = ToTree(heap, obj)
                 /\ batch_failed' = FALSE
                 /\ pc' = "apply"
                 /\ batch' = reply
                 /\ op_reports' = <<>>
                 /\ op_before' = Null
                 /\ UNCHANGED <<obj, result, operations_done_so_far, operation_last,
                                operation_next, operation_last_was_successful,
                                caller_kept, last_outcome, exit_gate,
                                n_validate, callback_raised>>
            ELSE \* lines 584-616: the exit gate
                 \E b \in CallbackBehaviours(ValidateGives),
                    reported \in ErrorLists \cup { <<>> } :
                 /\ options.on_validate_before_return \/ (b = Quiet /\ reported = <<>>)
                 /\ b.poke_kept => IsRef(caller_kept)
                 /\ b.gives = "handed" => b.poke_handed
                 /\ b.gives \in {"raise", "none"} => reported = <<>>
                 /\ b.gives = "errors_only" => reported # <<>>
                 /\ \E handed \in {IF options.on_validate_before_return
                                    THEN _deep_copy_json(heap, obj)
                                    ELSE [h |-> heap, v |-> Null]} :
                    \E ran \in {IF options.on_validate_before_return
                                 THEN RunCallback(handed.h, handed.v, b)
                                 ELSE [h |-> heap, v |-> Null, keep |-> caller_kept]} :
                    LET on_validate == options.on_validate_before_return
                        has_corrected == on_validate /\ b.gives \in {"handed", "input"}
                        obj1 == IF has_corrected THEN ran.v ELSE obj
                        validation_errors == IF on_validate THEN reported ELSE <<>>
                        action_desc == ValidationFailure(validation_errors)
                    IN /\ UNCHANGED <<batch_start, batch_failed, batch_vars>>
                       /\ n_validate' = IF on_validate THEN n_validate + 1 ELSE n_validate
                       /\ callback_raised' =
                              IF on_validate /\ b.gives = "raise"
                              THEN "on_validate_before_return" ELSE callback_raised
                       /\ caller_kept' = ran.keep
                       /\ IF on_validate /\ b.gives = "raise"
                          THEN /\ Propagate("CallbackError", ran.h, ran.keep)
                               /\ exit_gate' = [NoGate EXCEPT !.attempted = TRUE, !.validated = TRUE]
                               /\ UNCHANGED <<operations_done_so_far, operation_last,
                                              operation_next, operation_last_was_successful,
                                              last_outcome>>
                          ELSE /\ UNCHANGED <<obj_modified, modifications>>
                               /\ exit_gate' = [attempted |-> TRUE, validated |-> on_validate,
                                                errors |-> validation_errors,
                                                has_corrected |-> has_corrected,
                                                corrected |-> ToTree(ran.h, obj1)]
                               /\ IF ExitGatePasses(validation_errors)
                                  THEN /\ pc' = "returned"
                                       /\ result' = Returned(obj1)
                                       /\ obj' = obj1
                                       /\ heap' = Collect(ran.h, {input, obj1, ran.keep})
                                       /\ UNCHANGED <<operations_done_so_far, operation_last,
                                                      operation_next,
                                                      operation_last_was_successful,
                                                      last_outcome>>
                                  ELSE /\ pc' = "top"
                                       /\ obj' = obj1
                                       /\ heap' = Collect(ran.h, {input, obj1, ran.keep})
                                       /\ operation_last_was_successful' = FALSE
                                       /\ operations_done_so_far' =
                                              HistoryAfter(operations_done_so_far, action_desc)
                                       /\ operation_last' = action_desc
                                       /\ operation_next' = "Fix these validation errors, and try to exit again when they're done."
                                       /\ last_outcome' = "validation_failed"
                                       /\ UNCHANGED result

(***************************************************************************)
(* Lines 619-696: one pass of the loop over the batch.  An exception of    *)
(* the try block is caught and reported; the loop goes on.                 *)
(***************************************************************************)
\* every modification reported as failed
OpReportAlwaysFailed(r, modification) ==
    [applied |-> FALSE, error |-> r.err, text |-> r.at, modification |-> modification]

\* lines 683-696: the system message the pass adds to the conversation,
\* "Applied modification successfully ..." or "An error occurred while
\* applying proposed modification: <error>"
OpReport(r, modification) ==
    [applied |-> r.ok, error |-> r.err, text |-> r.at, modification |-> modification]

\* the loop left at the first modification that fails
RemainingUnlessFailed(r, remaining) == IF r.ok THEN Tail(remaining) ELSE <<>>

\* lines 619-620, 693: "for modification in modifications: try: ... except
\* Exception": the loop goes on to the next modification either way
RemainingAfter(r, remaining) == Tail(remaining)

ApplyPass ==
    /\ pc = "apply"
    /\ modifications # <<>>
    /\ \E r \in {ApplyModification(heap, obj_modified, Head(modifications))} :
       /\ heap' = Collect(r.h, Roots)
       /\ batch_failed' = (batch_failed \/ ~r.ok)
       /\ op_reports' = Append(op_reports, OpReport(r, Head(modifications)))
       /\ modifications' = RemainingAfter(r, modifications)
       /\ pc' = IF RemainingAfter(r, modifications) = <<>> THEN "verify" ELSE "apply"
    /\ op_before' = ToTree(heap, obj_modified)
    /\ UNCHANGED <<input, options, obj, obj_modified, operations_done_so_far,
                   operation_last, operation_next, operation_last_was_successful,
                   num_iterations, result, caller_kept, input_before,
                   batch_start, last_outcome, exit_gate, wip, raised_from, n_propose,
                   caller_poked, call_vars, batch, convo_vars>>

ApplyNext == ApplyPass /\ UNCHANGED aux_vars

(***************************************************************************)
(* Lines 698-749: the scratch copy is shown and the verification is        *)
(* discussed (plain text).                                                 *)
(***************************************************************************)
VerifyDiscuss ==
    /\ pc = "verify"
    /\ UNCHANGED <<input, options, operations_done_so_far, operation_last, operation_next,
                   operation_last_was_successful, num_iterations,
                   caller_kept, history_vars, n_wip, n_validate, callback_raised,
                   batch_vars, status, aux_vars>>
    /\ n_submit' = n_submit + 1
    /\ requests' = Append(requests, "verify_text")
    /\ \E replied \in BOOLEAN :
        IF replied
        THEN /\ pc' = "verify_json"
             /\ UNCHANGED <<heap, obj, obj_modified, modifications, result>>
        ELSE Propagate("CollaboratorError", heap, caller_kept)

(***************************************************************************)
(* Lines 751-796: the structured verification reply decides whether the    *)
(* scratch copy becomes the current snapshot.                              *)
(***************************************************************************)
VerifyDecide ==
    /\ pc = "verify_json"
    /\ UNCHANGED <<input, options, num_iterations, caller_kept,
                   input_before, batch_start, batch_failed, exit_gate, wip, raised_from,
                   n_propose, caller_poked, n_wip, n_validate, callback_raised,
                   status, aux_vars>>
    /\ n_submit' = n_submit + 1
    /\ requests' = Append(requests, "verify_json")
    /\ \E replied \in BOOLEAN :
        IF ~replied
        THEN /\ Propagate("CollaboratorError", heap, caller_kept)
             /\ UNCHANGED <<operations_done_so_far, operation_last, operation_next,
                            operation_last_was_successful, last_outcome, batch_vars>>
        ELSE \E should_we_keep_these_changes \in BOOLEAN :
            LET action_desc == IF should_we_keep_these_changes
                               THEN Entry("DONE", <<>>)
                               ELSE Entry("FAILED", <<>>)
                obj1 == KeepTheseChanges(should_we_keep_these_changes, obj, obj_modified)
            IN /\ obj' = obj1
               \* obj_modified is not read again before line 618 reassigns it
               /\ obj_modified' = Null
               /\ heap' = Collect(heap, {input, obj1, caller_kept})
               /\ operation_last_was_successful' = should_we_keep_these_changes
               /\ operations_done_so_far' = HistoryAfter(operations_done_so_far, action_desc)
               /\ operation_last' = action_desc
               /\ operation_next' = "next_step"
               /\ last_outcome' = IF should_we_keep_these_changes THEN "kept" ELSE "rejected"
               /\ pc' = "top"
               \* the loop over the batch is over: its bookkeeping starts anew
               /\ batch' = <<>>
               /\ op_reports' = <<>>
               /\ op_before' = Null
               /\ UNCHANGED <<modifications, result>>

(***************************************************************************)
(* After the call has ended the caller goes on using the objects it holds. *)
(***************************************************************************)
Ended == pc \in {"returned", "raised", "error"}

CallerMutatesKept ==
    /\ Ended
    /\ IsRef(caller_kept)
    /\ ~caller_poked
    /\ heap' = Poke(heap, caller_kept)
    /\ caller_poked' = TRUE
    /\ UNCHANGED <<program_vars_but_heap, input_before, batch_start, batch_failed,
                   last_outcome, exit_gate, wip, raised_from, n_propose,
                   call_vars, batch_vars, convo_vars, aux_vars>>

Next ==
    \/ Enter
    \/ IterationTop
    \/ Propose
    \/ Formalize
    \/ ApplyNext
    \/ VerifyDiscuss
    \/ VerifyDecide
    \/ CallerMutatesKept

Spec == Init /\ [][Next]_vars

\* A step of json_surgery itself.  Every collaborator call and every
\* callback call returns, so a step that can be taken is taken.
Step ==
    \/ Enter
    \/ IterationTop
    \/ Propose
    \/ Formalize
    \/ ApplyNext
    \/ VerifyDiscuss
    \/ VerifyDecide

FairSpec == Init /\ [][Next]_vars /\ WF_vars(Step)

(***************************************************************************)
(* One batch in detail: the loop of lines 619-696 over a richer choice of  *)
(* documents and modifications.  The initial states are those of a session *)
(* without callbacks and budgets at line 619 of its first iteration: the   *)
(* intake copy, the planning, proposal and formalization requests and the  *)
(* scratch copy of line 618 are done.                                      *)
(***************************************************************************)
OpDocs ==
    { TDict((Str("a") :> TDict((Str("x") :> Num(1)) @@ (Str("y") :> Num(2))))
            @@ (Str("l") :> TList(<<Num(1), Num(2)>>))
            @@ (Str("n") :> Null)),
      TDict((Str("a") :> TDict(Str("x") :> TDict(Str("k") :> Num(1))))
            @@ (Str("l") :> TList(<<>>))) }

\* the keys options["skipped_keys"] may list
OpSkippedKeys == { {}, {Str("x")} }

OpOps ==
    LET A == <<Str("a")>>
        L == <<Str("l")>>
        Seven == DataInline(EnvPrim("numerical_value", Num(7)))
        Nested == DataInline(EnvObject(<<[key |-> "k",
                                          value |-> EnvArray(<<EnvPrim("boolean_value", Bool(TRUE))>>)]>>))
        Untagged == EnvPrim("", Null)
        EveryTag == DataInline(EnvObject(
                        <<[key |-> "k", value |-> EnvPrim("string_value", Str("s"))],
                          [key |-> "e", value |-> EnvPrim("empty_array", Null)],
                          [key |-> "k", value |-> EnvArray(<<EnvPrim("null_value", Null),
                                                             EnvPrim("empty_object", Null),
                                                             EnvPrim("empty_object", Null)>>)]>>))
    IN {\* inline values of every tag and of none
        Modification(A, Str("e"), "assign", "", EveryTag),
        Modification(A, Str("u"), "assign", "", DataInline(Untagged)),
        Modification(L, Num(-1), "append", "",
                     DataInline(EnvObject(<<[key |-> "k", value |-> EnvArray(<<Untagged>>)]>>))),
        Modification(<<Str("zz")>>, Str("u"), "assign", "", DataInline(Untagged)),
        \* assign
        Modification(A, Str("x"), "assign", "", Seven),
        Modification(A, Str("z"), "assign", "", Nested),
        Modification(L, Num(0), "assign", "", Seven),
        Modification(L, Num(5), "assign", "", Seven),
        Modification(<<>>, Str("c"), "assign", "", DataCopy(A)),
        Modification(<<Str("c")>>, Str("x"), "assign", "", Seven),
        Modification(<<>>, Str("d"), "assign", "", DataCopy(<<Str("zz")>>)),
        Modification(<<Str("n")>>, Str("x"), "assign", "", Seven),
        Modification(<<Str("a"), Str("x")>>, Str("k"), "assign", "", Seven),
        \* delete
        Modification(A, Str("x"), "delete", "", DataNone),
        Modification(A, Str("q"), "delete", "", DataNone),
        Modification(L, Num(0), "delete", "", DataNone),
        Modification(L, Str("1"), "delete", "", DataNone),
        Modification(L, Num(5), "delete", "", DataNone),
        Modification(<<Str("n")>>, Str("x"), "delete", "", DataNone),
        \* append and insert
        Modification(L, Num(-1), "append", "", Seven),
        Modification(L, Num(-1), "append", "", DataCopy(A)),
        Modification(A, Num(-1), "append", "", Seven),
        Modification(L, Num(0), "insert", "", Seven),
        Modification(L, Num(1), "insert", "", Nested),
        Modification(L, Num(2), "insert", "", Seven),
        Modification(A, Num(0), "insert", "", Seven),
        Modification(<<Str("a"), Str("x")>>, Num(0), "insert", "", Seven),
        \* rename
        Modification(A, Str("x"), "rename", "r", DataNone),
        Modification(A, Str("x"), "rename", "y", DataNone),
        Modification(A, Str("x"), "rename", "x", DataNone),
        Modification(A, Str("q"), "rename", "r", DataNone),
        Modification(A, Str("q"), "rename", "q", DataNone),
        Modification(A, Str("x"), "rename", "", DataNone),
        Modification(L, Num(0), "rename", "r", DataNone),
        Modification(<<>>, Str("a"), "rename", "b", DataNone),
        \* a subtree replaced by a copy of its child, the source of the copies deleted
        Modification(<<>>, Str("a"), "assign", "", DataCopy(<<Str("a"), Str("x")>>)),
        Modification(<<>>, Str("a"), "delete", "", DataNone),
        \* an index that is no integer, no json_path_of_parent
        Modification(L, Str("x"), "delete", "", DataNone),
        [Modification(A, Str("x"), "assign", "", Seven) EXCEPT !.has_path = FALSE],
        \* no such action, no action
        Modification(A, Str("x"), "move", "r", Seven),
        Modification(A, Str("x"), "", "", Seven) }

OpBatches == SeqsUpTo(OpOps, MaxOpBatch) \ { <<>> }

\* lines 172-618: the session at the start of the loop over the batch
\* 'reply', the first of the session, for the document 'doc'
LoopStart(doc, skipped_keys, reply) ==
    \E a \in {Alloc(EmptyHeap, doc)} :
    \E c \in {_deep_copy_json(a.h, a.v)} :
    \E m \in {_deep_copy_json(c.h, c.v)} :
        /\ heap = m.h
        /\ input = a.v
        /\ options = [skipped_keys |-> skipped_keys,
                      on_validate_before_return |-> FALSE,
                      on_work_in_progress |-> FALSE,
                      give_up_after_seconds |-> Absent,
                      give_up_after_iterations |-> Absent]
        /\ obj = c.v
        /\ obj_modified = m.v
        /\ modifications = reply
        /\ operations_done_so_far = <<>>
        /\ operation_last = NothingYet
        /\ operation_next = "(nothing, we just started)"
        /\ operation_last_was_successful = TRUE
        /\ num_iterations = 1
        /\ pc = "apply"
        /\ result = NoResult
        /\ caller_kept = Null
        /\ input_before = doc
        /\ batch_start = doc
        /\ batch_failed = FALSE
        /\ last_outcome = "none"
        /\ exit_gate = NoGate
        /\ wip = NoWip
        /\ raised_from = Null
        /\ n_propose = 1
        /\ caller_poked = FALSE
        /\ n_submit = 3
        /\ n_wip = 0
        /\ n_validate = 0
        /\ callback_raised = ""
        /\ batch = reply
        /\ op_reports = <<>>
        /\ op_before = Null
        /\ status = NoStatus
        /\ requests = <<"plan", "propose", "formalize">>

OpInit ==
    \E doc \in OpDocs, skipped_keys \in OpSkippedKeys, reply \in OpBatches :
        /\ LoopStart(doc, skipped_keys, reply)
        /\ call = NoCall
        /\ frame = NoFrame

OpNext == ApplyNext

OpSpec == OpInit /\ [][OpNext]_vars

(***************************************************************************)
(* Two sessions side by side: the same loop over the same batch for two    *)
(* documents that differ under a skipped key only.  The first session is   *)
(* in the variables of the session, the second in frame.                   *)
(***************************************************************************)
TwinSkippedKeys == {Str("x")}
\* the values under the skipped key
Secrets == { Num(1), Num(9), Null, TDict(Str("k") :> Num(1)), TList(<<Num(1)>>) }
TwinDoc(secret) ==
    TDict((Str("a") :> TDict((Str("x") :> secret) @@ (Str("y") :> Num(2))))
          @@ (Str("l") :> TList(<<Num(1), Num(2)>>)))
TwinDocs == { <<TwinDoc(v), TwinDoc(w)>> : v \in Secrets, w \in Secrets } \
            { <<TwinDoc(v), TwinDoc(v)>> : v \in Secrets }

TwinOps ==
    LET A == <<Str("a")>>
        Seven == DataInline(EnvPrim("numerical_value", Num(7)))
    IN { Modification(A, Str("y"), "assign", "", Seven),
         Modification(A, Str("x"), "assign", "", Seven),
         Modification(A, Str("x"), "delete", "", DataNone),
         Modification(A, Str("x"), "rename", "v", DataNone),
         Modification(<<>>, Str("c"), "assign", "", DataCopy(<<Str("a"), Str("x")>>)),
         Modification(<<Str("a"), Str("x")>>, Str("k"), "assign", "", Seven),
         Modification(<<Str("a"), Str("x")>>, Num(0), "insert", "", Seven),
         Modification(<<Str("l")>>, Num(-1), "append", "", Seven) }
TwinBatches == SeqsUpTo(TwinOps, MaxOpBatch) \ { <<>> }

TwinInit ==
    \E docs \in TwinDocs, reply \in TwinBatches :
    \E a \in {Alloc(EmptyHeap, docs[2])} :
    \E c \in {_deep_copy_json(a.h, a.v)} :
    \E m \in {_deep_copy_json(c.h, c.v)} :
        /\ LoopStart(docs[1], TwinSkippedKeys, reply)
        /\ call = [fn |-> "json_surgery", obj |-> docs[2]]
        /\ frame = [pc |-> "twin", heap |-> m.h, input |-> a.v, obj |-> c.v,
                    obj_modified |-> m.v, op_reports |-> <<>>]

\* the pass of the loop in both sessions, for the same modification
TwinApply ==
    /\ ApplyPass
    /\ frame.pc = "twin"
    /\ \E r \in {ApplyModification(frame.heap, frame.obj_modified, Head(modifications))} :
           frame' = [frame EXCEPT
                        !.heap = Collect(r.h, {frame.input, frame.obj, frame.obj_modified}),
                        !.op_reports = Append(@, OpReport(r, Head(modifications)))]
    /\ UNCHANGED call

TwinNext == TwinApply

TwinSpec == TwinInit /\ [][TwinNext]_vars

(***************************************************************************)
(* Functions on their own.  No session is running: the variables of        *)
(* json_surgery rest, the heap holds the argument, call holds the function *)
(* and its arguments, frame its outcome.                                   *)
(***************************************************************************)
session_vars_but_heap == <<program_vars_but_heap, history_vars, call_vars, batch_vars,
                           convo_vars>>

NoSession ==
    /\ input = Null
    /\ options = [skipped_keys |-> {},
                  on_validate_before_return |-> FALSE,
                  on_work_in_progress |-> FALSE,
                  give_up_after_seconds |-> Absent,
                  give_up_after_iterations |-> Absent]
    /\ obj = Null
    /\ obj_modified = Null
    /\ modifications = <<>>
    /\ operations_done_so_far = <<>>
    /\ operation_last = NothingYet
    /\ operation_next = "(nothing, we just started)"
    /\ operation_last_was_successful = TRUE
    /\ num_iterations = 0
    /\ pc = "no session"
    /\ result = NoResult
    /\ caller_kept = Null
    /\ input_before = Null
    /\ batch_start = Null
    /\ batch_failed = FALSE
    /\ last_outcome = "none"
    /\ exit_gate = NoGate
    /\ wip = NoWip
    /\ raised_from = Null
    /\ n_propose = 0
    /\ caller_poked = FALSE
    /\ n_submit = 0
    /\ n_wip = 0
    /\ n_validate = 0
    /\ callback_raised = ""
    /\ batch = <<>>
    /\ op_reports = <<>>
    /\ op_before = Null
    /\ status = NoStatus
    /\ requests = <<>>

\* documents and paths handed to navigate_to_json_path
NavDocs ==
    OpDocs \cup
    { TDict((Str("s") :> TList(<<TDict(Str("t") :> Num(1)), TDict(Str("t") :> Null)>>))
            @@ (Str("m") :> TDict(EmptyFcn))),
      TList(<<TList(<<Num(1)>>), TDict(Str("a") :> Str("v"))>>),
      TDict((Str("a") :> Num(0)) @@ (Str("x") :> Str("")) @@ (Str("t") :> Bool(FALSE))
            @@ (Str("m") :> TDict(EmptyFcn)) @@ (Str("l") :> TList(<<>>))
            @@ (Str("s") :> Str("v"))) }
NavKeys == { Str("a"), Str("x"), Str("l"), Str("s"), Str("t"), Str("m"), Str("zz"),
             Num(0), Num(1), Num(-1), Num(5) }
NavPaths == SeqsUpTo(NavKeys, MaxPathLen)

(***************************************************************************)
(* placemarked_json_stringify.  A line of the output is its indentation    *)
(* and the sequence of its tokens; the text returned is the sequence of    *)
(* lines.  Dict keys are rendered in one fixed order, which stands for the *)
(* insertion order of the dict.                                            *)
(***************************************************************************)
Line(current_indent, toks) == [indent |-> current_indent, toks |-> toks]
Blank == Line(0, <<>>)
Comment(path) == [t |-> "//", path |-> path]
Literal(value) == [t |-> "literal", v |-> value]
Bracket(b) == [t |-> b]
KeyTok(key, sep) == [t |-> "key", key |-> key, sep |-> sep]
Comma == [t |-> ","]

\* strings that hold a brace or a bracket
BraceStrings == {"{", "a[b"}
\* "{" in line or "[" in line
HasBrace(line) ==
    \E i \in 1..Len(line.toks) :
        LET tok == line.toks[i] IN
        \/ tok.t \in {"{", "["}
        \/ tok.t = "literal" /\ tok.v.k = "str" /\ tok.v.s \in BraceStrings
        \/ tok.t = "key" /\ tok.key.s \in BraceStrings
        \/ tok.t = "//" /\ \E j \in 1..Len(tok.path) :
               tok.path[j].k = "str" /\ tok.path[j].s \in BraceStrings
\* line.endswith(": ")
EndsWithColonSpace(line) ==
    /\ line.toks # <<>>
    /\ line.toks[Len(line.toks)].t = "key"
    /\ line.toks[Len(line.toks)].sep = ": "

\* lines[-1] += ","
AddComma(lines) ==
    [lines EXCEPT ![Len(lines)] = Line(@.indent, Append(@.toks, Comma))]

RECURSIVE OrderOf(_)
OrderOf(S) ==
    IF S = {} THEN <<>>
    ELSE LET x == CHOOSE y \in S : TRUE IN <<x>> \o OrderOf(S \ {x})

\* the filter forgotten: every key rendered
KeysAll(f, skipped_keys) == OrderOf(DOMAIN f)

\* line 47: keys = [k for k in value.keys() if k not in skipped_keys]
KeysShown(f, skipped_keys) ==
    LET Shown(k) == k \notin skipped_keys IN SelectSeq(OrderOf(DOMAIN f), Shown)

IsNonPrimitive(val) == val.k \in {"dict", "list"}

RECURSIVE _stringify(_, _, _, _, _, _), StringifyItems(_, _, _, _, _, _, _),
          StringifyKeys(_, _, _, _, _, _, _, _)
\* lines 24-72, on the lines rendered so far
_stringify(value, path, current_indent, indent, skipped_keys, lines) ==
    IF value.k = "list" THEN
        LET opened == Append(lines, Line(current_indent, <<Bracket("[")>>))
            items == StringifyItems(value.items, 1, path, current_indent, indent,
                                    skipped_keys, opened)
            popped == IF items # <<>> /\ items[Len(items)] = Blank
                      THEN SubSeq(items, 1, Len(items) - 1) ELSE items
        IN Append(popped, Line(current_indent, <<Bracket("]")>>))
    ELSE IF value.k = "dict" THEN
        LET opened == Append(lines, Line(current_indent, <<Bracket("{")>>))
            keys == KeysShown(value.f, skipped_keys)
            entries == StringifyKeys(value.f, keys, 1, path, current_indent, indent,
                                     skipped_keys, opened)
        IN Append(entries, Line(current_indent, <<Bracket("}")>>))
    ELSE Append(lines, Line(current_indent, <<Literal(value)>>))
StringifyItems(value, index, path, current_indent, indent, skipped_keys, lines) ==
    IF index > Len(value) THEN lines
    ELSE LET item_path == Append(path, Num(index - 1))
             commented == Append(lines, Line(current_indent + indent, <<Comment(item_path)>>))
             item == _stringify(value[index], item_path, current_indent + indent, indent,
                                skipped_keys, commented)
             separated == IF index < Len(value) THEN AddComma(item) ELSE item
         IN StringifyItems(value, index + 1, path, current_indent, indent, skipped_keys,
                           Append(separated, Blank))
StringifyKeys(value, keys, index, path, current_indent, indent, skipped_keys, lines) ==
    IF index > Len(keys) THEN lines
    ELSE LET key == keys[index]
             key_path == Append(path, key)
             val == value[key]
             commented ==
                 IF IsNonPrimitive(val)
                 THEN lines \o <<Blank, Line(current_indent + indent, <<Comment(key_path)>>)>>
                 ELSE lines
             keyed == Append(commented,
                             Line(current_indent + indent,
                                  <<KeyTok(key, IF IsNonPrimitive(val) THEN ":" ELSE ": ")>>))
             entry == _stringify(val, key_path, current_indent + indent, indent,
                                 skipped_keys, keyed)
             separated == IF index < Len(keys) THEN AddComma(entry) ELSE entry
         IN StringifyKeys(value, keys, index + 1, path, current_indent, indent,
                          skipped_keys, separated)

\* lines 77-86: a key line ending with ": " is joined with the line of its value
RECURSIVE MergeLines(_, _)
MergeLines(lines, i) ==
    IF i > Len(lines) THEN <<>>
    ELSE IF /\ EndsWithColonSpace(lines[i])
            /\ i + 1 <= Len(lines)
            /\ ~HasBrace(lines[i + 1])
    THEN <<Line(lines[i].indent, lines[i].toks \o lines[i + 1].toks)>>
         \o MergeLines(lines, i + 2)
    ELSE <<lines[i]>> \o MergeLines(lines, i + 1)

\* indent = None or 0 becomes 2; the tree of obj is rendered
placemarked_json_stringify(value, indent, skipped_keys) ==
    MergeLines(_stringify(value, <<>>, 0, IF indent = 0 THEN 2 ELSE indent, skipped_keys,
                          <<Line(0, <<Comment(<<>>)>>)>>), 1)

\* documents, indents and skipped keys handed to placemarked_json_stringify
StringifyDocs ==
    NavDocs \cup
    { TDict((Str("x") :> TList(<<Num(7)>>))
            @@ (Str("l") :> TList(<<TDict((Str("x") :> Str("{")) @@ (Str("t") :> Bool(TRUE))),
                                    TDict(Str("x") :> Num(2)),
                                    TList(<<TDict(Str("x") :> Null)>>)>>))),
      TDict((Str("a") :> Str("a[b")) @@ (Str("t") :> TDict(Str("t") :> TDict(Str("x") :> Str("x"))))),
      Str("x") }
Indents == {0, 2, 3}
SkippedKeySets == SUBSET {Str("x"), Str("a"), Str("t")}

\* placemarked_json_stringify(obj, indent, skipped_keys) is called and returns
Stringify ==
    /\ call = NoCall
    /\ \E doc \in StringifyDocs, indent \in Indents, skipped_keys \in SkippedKeySets :
       \E a \in {Alloc(EmptyHeap, doc)} :
        /\ heap' = a.h
        /\ call' = [fn |-> "placemarked_json_stringify", obj |-> a.v, before |-> doc,
                    indent |-> indent, skipped_keys |-> skipped_keys]
        /\ frame' = [pc |-> "done",
                     result |-> placemarked_json_stringify(ToTree(a.h, a.v), indent,
                                                           skipped_keys)]
        /\ UNCHANGED session_vars_but_heap

FnInit ==
    /\ NoSession
    /\ heap = EmptyHeap
    /\ call = NoCall
    /\ frame = NoFrame

\* navigate_to_json_path(obj, json_path) is called and returns or raises
Navigate ==
    /\ call = NoCall
    /\ \E doc \in NavDocs :
       \E a \in {Alloc(EmptyHeap, doc)} :
       \E json_path \in NavPaths :
        /\ heap' = a.h
        /\ call' = [fn |-> "navigate_to_json_path", obj |-> a.v, json_path |-> json_path]
        /\ frame' = [pc |-> "done",
                     result |-> navigate_to_json_path(a.h, a.v, json_path)]
        /\ UNCHANGED session_vars_but_heap

FnNext ==
    \/ Navigate
    \/ Stringify

FnSpec == FnInit /\ [][FnNext]_vars

(***************************************************************************)
(* gpt_submit on its own: the retry loop around responses.create.          *)
(***************************************************************************)
\* what one attempt can meet: a reply that parses as JSON, a reply that does
\* not, an OpenAIError that is retried, an OpenAIError that is not
\* (AuthenticationError, PermissionDeniedError, an APIConnectionError caused
\* by a LocalProtocolError), and a response object without output_text
Replies == {"json text", "plain text"}
OpenAIErrors == {"OpenAIError", "AuthenticationError", "PermissionDeniedError",
                 "APIConnectionError from LocalProtocolError"}
Raises == OpenAIErrors \cup {"AttributeError"}
AttemptOutcomes == Replies \cup Raises

NoError == [type |-> "none", attempt |-> 0]
Error(type, attempt) == [type |-> type, attempt |-> attempt]

\* every OpenAIError stored and retried
RetryableAlways(type) == TRUE

\* lines 233-254: the OpenAIErrors that are stored in efail and retried
Retryable(type) ==
    type \notin {"AuthenticationError", "PermissionDeniedError",
                 "APIConnectionError from LocalProtocolError"}

\* the failure of the first attempt kept
EfailFirst(efail, e) == IF efail = NoError THEN e ELSE efail

\* lines 247, 256: efail = e
EfailLast(efail, e) == e

\* line 128, and the state of the loop before its first pass
SubmitInit ==
    /\ NoSession
    /\ heap = EmptyHeap
    /\ \E retry_limit \in 0..MaxRetry, json_response \in BOOLEAN :
           call = [fn |-> "gpt_submit", retry_limit |-> retry_limit,
                   json_response |-> json_response]
    /\ frame = [pc |-> "loop", iretry |-> 0, efail |-> NoError, create_calls |-> <<>>,
                sleeps |-> <<>>, result |-> NoResult, raised |-> NoError]

\* lines 179-262: one pass of 'for iretry in range(retry_limit)'
Attempt ==
    /\ call.fn = "gpt_submit"
    /\ frame.pc = "loop"
    /\ frame.iretry < call.retry_limit
    /\ \E outcome \in AttemptOutcomes :
        LET n == Len(frame.create_calls) + 1
            called == [frame EXCEPT !.create_calls = Append(@, outcome)]
        IN frame' =
            IF outcome \in Replies THEN
                IF ~call.json_response
                THEN [called EXCEPT !.pc = "returned",
                                    !.result = Returned(Str(outcome))]
                ELSE IF outcome = "json text"
                THEN [called EXCEPT !.pc = "returned",
                                    !.result = Returned(TDict(EmptyFcn))]
                ELSE [called EXCEPT !.iretry = @ + 1,
                                    !.efail = EfailLast(@, Error("JSONDecodeError", n))]
            ELSE IF outcome \in OpenAIErrors /\ Retryable(outcome)
            THEN [called EXCEPT !.iretry = @ + 1,
                                !.efail = EfailLast(@, Error(outcome, n)),
                                \* line 254: time.sleep after the attempt n
                                !.sleeps = Append(@, n)]
            ELSE [called EXCEPT !.pc = "raised", !.raised = Error(outcome, n)]
    /\ UNCHANGED <<heap, call, session_vars_but_heap>>

\* lines 264-267: the loop is over
Exhausted ==
    /\ call.fn = "gpt_submit"
    /\ frame.pc = "loop"
    /\ frame.iretry >= call.retry_limit
    /\ frame' = [frame EXCEPT !.pc = "raised",
                              !.raised = IF frame.efail # NoError THEN frame.efail
                                         ELSE Error("ValueError", 0)]
    /\ UNCHANGED <<heap, call, session_vars_but_heap>>

SubmitNext ==
    \/ Attempt
    \/ Exhausted

SubmitSpec == SubmitInit /\ [][SubmitNext]_vars

(***************************************************************************)
(* GptConversation (gpt_api/orig--gpt_helpers.py): a list of role-tagged   *)
(* messages with last_reply, openai_client and model.  The conversation is *)
(* held in frame, the arguments of the last call in call; values are JSON  *)
(* trees.                                                                  *)
(***************************************************************************)
\* bool(x) of a JSON tree
TreeTruthy(v) ==
    CASE v.k = "null" -> FALSE
      [] v.k = "bool" -> v.b
      [] v.k = "num" -> v.n # 0
      [] v.k = "str" -> v.s # ""
      [] v.k = "dict" -> DOMAIN v.f # {}
      [] v.k = "list" -> v.items # <<>>

GPT_MODEL_SMART == Str("gpt-4.1")

\* json.dumps(content, indent=2) of a dict and str(content) of any other
\* value that is not a string: a string that names the value it renders
Dumps(content) == [k |-> "str", s |-> "json.dumps", of |-> content]
StrOf(content) == [k |-> "str", s |-> "str", of |-> content]

\* lines 95-104: add_message(role, content)
add_message(messages, role, content) ==
    LET text == IF content.k = "str" THEN content
                ELSE IF content.k = "dict" THEN Dumps(content)
                ELSE StrOf(content)
    IN Append(messages, [role |-> role, content |-> text])

\* what gpt_submit does with the request: it returns a string, it returns a
\* parsed JSON object, or it raises
TransportOutcomes == {"text", "json", "raise"}
TransportReply(outcome) ==
    IF outcome = "text" THEN Str("reply") ELSE TDict(Str("answer") :> Num(1))

NotCalled == [kind |-> "none", exception |-> "", value |-> Null]

\* lines 52-93: submit(message, role, model=, json_response=) on the
\* conversation self, the transport call ending as outcome says
submit(self, message, role, model, json_response, outcome) ==
    LET entered == [self EXCEPT !.n_calls = @ + 1,
                                !.before = [messages |-> self.messages,
                                            last_reply |-> self.last_reply]]
    IN
    IF ~self.openai_client
    THEN [entered EXCEPT !.outcome = [kind |-> "raised", exception |-> "ValueError",
                                      value |-> Null],
                         !.sent = <<>>]
    ELSE
    LET model1 == IF TreeTruthy(model) THEN model
                  ELSE IF TreeTruthy(self.model) THEN self.model
                  ELSE GPT_MODEL_SMART
        given == TreeTruthy(message)
        isdict == given /\ message.k = "dict"
        json_response1 ==
            IF isdict /\ ~TreeTruthy(json_response) /\ Str("format") \in DOMAIN message.f
            THEN message ELSE json_response
        role1 ==
            IF isdict /\ ~TreeTruthy(role) /\ Str("role") \in DOMAIN message.f
            THEN message.f[Str("role")] ELSE role
        message1 ==
            IF isdict /\ Str("content") \in DOMAIN message.f
            THEN message.f[Str("content")] ELSE message
        added == IF given
                 THEN add_message(self.messages,
                                  IF TreeTruthy(role1) THEN role1 ELSE Str("user"),
                                  message1)
                 ELSE self.messages
        request == [messages |-> added, json_response |-> json_response1,
                    model |-> model1]
        llmreply == TransportReply(outcome)
    IN IF outcome = "raise"
       THEN [entered EXCEPT !.messages = added,
                            !.sent = <<request>>,
                            !.outcome = [kind |-> "raised", exception |-> "TransportError",
                                         value |-> Null]]
       ELSE [entered EXCEPT !.messages = add_message(added, Str("assistant"), llmreply),
                            !.last_reply = llmreply,
                            !.sent = <<request>>,
                            !.outcome = [kind |-> "returned", exception |-> "",
                                         value |-> llmreply]]

\* the arguments explored
SubmitMessages ==
    { Null, Str(""), Str("hi"), TDict(EmptyFcn),
      TDict(Str("content") :> Str("c")),
      TDict((Str("role") :> Str("system")) @@ (Str("content") :> Str("c"))),
      TDict(Str("format") :> TDict(Str("type") :> Str("json_schema"))) }
SubmitRoles == { Null, Str("user"), Str("system") }
SubmitModels == { Null, Str("gpt-custom") }
JsonResponses == { Null, Bool(TRUE) }
InitialMessages == { <<>>, <<[role |-> Str("user"), content |-> Str("hello")]>> }

\* lines 23-36: the conversation after construction
ConvoInit ==
    /\ NoSession
    /\ heap = EmptyHeap
    /\ call = NoCall
    /\ \E messages \in InitialMessages, openai_client \in BOOLEAN,
          model \in {Null, Str("gpt-instance")} :
           frame = [pc |-> "idle", messages |-> messages, last_reply |-> Null,
                    openai_client |-> openai_client, model |-> model,
                    n_calls |-> 0, sent |-> <<>>, outcome |-> NotCalled,
                    before |-> [messages |-> messages, last_reply |-> Null]]

\* the caller calls submit(message, role, model=, json_response=)
Submit ==
    /\ frame.pc = "idle"
    /\ frame.n_calls < MaxSubmits
    /\ \E message \in SubmitMessages, role \in SubmitRoles, model \in SubmitModels,
          json_response \in JsonResponses, outcome \in TransportOutcomes :
        /\ call' = [fn |-> "submit", message |-> message, role |-> role,
                    model |-> model, json_response |-> json_response]
        /\ frame' = submit(frame, message, role, model, json_response, outcome)
    /\ UNCHANGED <<heap, session_vars_but_heap>>

\* lines 122-126: submit_message(role, content), and through it the four
\* submit_<role>_message wrappers: add_message, then submit()
SubmitMessage ==
    /\ frame.pc = "idle"
    /\ frame.n_calls < MaxSubmits
    /\ \E role \in {Str("user"), Str("assistant"), Str("system"), Str("developer")},
          content \in {Str("hi"), TDict(Str("q") :> Num(1)), Num(5)},
          outcome \in TransportOutcomes :
        /\ call' = [fn |-> "submit_message", message |-> content, role |-> role,
                    model |-> Null, json_response |-> Null]
        /\ frame' = submit([frame EXCEPT !.messages = add_message(@, role, content)],
                           Null, Str("user"), Null, Null, outcome)
    /\ UNCHANGED <<heap, session_vars_but_heap>>

ConvoNext ==
    \/ Submit
    \/ SubmitMessage

ConvoSpec == ConvoInit /\ [][ConvoNext]_vars

(***************************************************************************)
(* compare_item_lists (comparison/compare_lists.py).  Items are plain      *)
(* strings (an item is its name); the locals of the call are held in       *)
(* frame, its arguments in call.                                           *)
(***************************************************************************)
\* str.lower() and str.strip() on the strings explored
Lower(name) == CASE name = "A" -> "a" [] name = "B" -> "b" [] OTHER -> name
Strip(name) == CASE name = " b " -> "b" [] OTHER -> name
\* json.dumps of a string
JsonDumps(name) == "\"" \o name \o "\""

\* lines 159-164: _are_names_equivalent
_are_names_equivalent(a, b) ==
    LET x == Lower(Strip(a))
        y == Lower(Strip(b))
    IN x = y \/ x = JsonDumps(y) \/ JsonDumps(x) = y

\* lines 167-178: _remove_items_by_name
_remove_items_by_name(list_to_modify, item_name_to_remove) ==
    SelectSeq(list_to_modify,
              LAMBDA item : ~_are_names_equivalent(Lower(Strip(item)),
                                                   Lower(Strip(item_name_to_remove))))

\* lines 115-133: _assert_unique_names_in_list raises for these lists
HasDuplicateNames(list_to_check) ==
    \E i, j \in 1..Len(list_to_check) :
        i # j /\ Lower(Strip(list_to_check[i])) = Lower(Strip(list_to_check[j]))

\* the order of Python strings on the names explored (code points: the
\* capitals come first)
StrRank(name) ==
    CASE name = "A" -> 1 [] name = "B" -> 2 [] name = "a" -> 3 [] name = "b" -> 4
      [] name = "c" -> 5 [] OTHER -> 6
PyStrLess(a, b) == StrRank(a) < StrRank(b)

\* the order of two lowercased names ("a" < "b" < "c" < "d")
NameRank(name) ==
    CASE Lower(name) = "a" -> 1 [] Lower(name) = "b" -> 2 [] Lower(name) = "c" -> 3
      [] OTHER -> 4

\* lines 146-156 and 201-202: list.sort by _compare_items_by_name (stable)
RECURSIVE SortedByName(_)
SortedByName(items) ==
    IF items = <<>> THEN <<>>
    ELSE LET rest == SortedByName(Tail(items))
             x == Head(items)
             before == SelectSeq(rest, LAMBDA y : NameRank(y) < NameRank(x))
             after == SelectSeq(rest, LAMBDA y : NameRank(y) >= NameRank(x))
         IN before \o <<x>> \o after

\* the names of a list, and "sorted(names)" of a set of names
NamesOf(items) == { items[i] : i \in 1..Len(items) }
RECURSIVE SortedNames(_)
SortedNames(names) ==
    IF names = {} THEN <<>>
    ELSE LET first == CHOOSE n \in names :
                          \A m \in names : PyStrLess(n, m) \/ n = m
         IN <<first>> \o SortedNames(names \ {first})

RECURSIVE RemoveAll(_, _)
RemoveAll(items, names) ==
    IF names = {} THEN items
    ELSE LET name == CHOOSE n \in names : TRUE
         IN RemoveAll(_remove_items_by_name(items, name), names \ {name})

\* one call of on_comparing_item
Event(item, is_from_before_list, is_starting, comparison_result, new_name, error,
      total_processed_so_far, total_left_to_process) ==
    [item |-> item, is_from_before_list |-> is_from_before_list,
     is_starting |-> is_starting, result |-> comparison_result, new_name |-> new_name,
     error |-> error, total_processed_so_far |-> total_processed_so_far,
     total_left_to_process |-> total_left_to_process]

\* a failed item counted twice
ProcessedTwice(total_processed_items) == total_processed_items + 2

\* "total_processed_items += 1"
Processed(total_processed_items) == total_processed_items + 1

\* the lists compare_item_lists is called with
ItemNames == {"a", "A", "b", "c", "d"}
ItemLists == SeqsUpTo(ItemNames, MaxItems)

\* what the collaborator does with the two requests about an item of the
\* before list: a submit raises, or the JSON reply carries these fields (a
\* reply that is no object reads as all fields None)
NewNames == {"", "b", " b ", "B", "\"c\"", "zz"}
BeforeReplies ==
    [kind : {"reply"}, is_deleted : BOOLEAN, is_renamed : BOOLEAN, new_name : NewNames]
BeforeOutcomes ==
    {[kind |-> "raise", is_deleted |-> FALSE, is_renamed |-> FALSE, new_name |-> ""]}
    \cup { r \in BeforeReplies : ~r.is_renamed => r.new_name = "" }
AfterOutcomes == {"raise", "added", "not added"}

NoRetval == [removed |-> <<>>, added |-> <<>>, renamed |-> <<>>, unchanged |-> <<>>]

CompareInit ==
    /\ NoSession
    /\ heap = EmptyHeap
    /\ \E list_before \in ItemLists, list_after \in ItemLists,
          on_comparing_item \in BOOLEAN :
           call = [fn |-> "compare_item_lists", list_before |-> list_before,
                   list_after |-> list_after, on_comparing_item |-> on_comparing_item]
    /\ frame = [pc |-> "called", list_before |-> <<>>, list_after |-> <<>>, i_item |-> 0,
                total_processed_items |-> 0, retval |-> NoRetval, events |-> <<>>,
                handed |-> <<>>, raised |-> "", callback_raised |-> FALSE]

\* the loop over list_before is left for the loop over list_after
Advance(self) ==
    IF self.pc = "before" /\ self.i_item >= Len(self.list_before)
    THEN [self EXCEPT !.pc = "after", !.i_item = 0]
    ELSE self

\* lines 189-257: the copies, the duplicate checks, the sort, the names in
\* both lists, the base conversation
Prepare ==
    /\ call.fn = "compare_item_lists"
    /\ frame.pc = "called"
    /\ UNCHANGED <<heap, call, session_vars_but_heap>>
    /\ IF HasDuplicateNames(call.list_before) \/ HasDuplicateNames(call.list_after)
       THEN frame' = [frame EXCEPT !.pc = "error", !.raised = "ValueError"]
       ELSE LET sorted_before == SortedByName(call.list_before)
                sorted_after == SortedByName(call.list_after)
                set_strings_common ==
                    { b \in NamesOf(sorted_before) :
                        \E a \in NamesOf(sorted_after) : Lower(b) = Lower(a) }
            IN frame' = Advance([frame EXCEPT
                   !.pc = "before",
                   !.retval.unchanged = SortedNames(set_strings_common),
                   !.list_before = RemoveAll(sorted_before, set_strings_common),
                   !.list_after = RemoveAll(sorted_after, set_strings_common)])

\* what on_comparing_item does when it is called: it returns or it raises,
\* at the start event, at the finish event made inside the try block, and
\* at the finish event made by the except clause
CallbackRaises == [start : BOOLEAN, finish : BOOLEAN, again : BOOLEAN]
CallbackReturns == [start |-> FALSE, finish |-> FALSE, again |-> FALSE]

\* lines 333-437: what the try block does with the reply about an item of
\* the before list
ClassifyBefore(self, item_before, reply) ==
    LET unchanged == [self.retval EXCEPT !.unchanged = Append(@, item_before)]
        new_name_according_to_llm == Strip(reply.new_name)
        matching == SelectSeq(self.list_after,
                              LAMBDA item_after :
                                  _are_names_equivalent(item_after, new_name_according_to_llm))
    IN
    IF ~reply.is_deleted /\ ~reply.is_renamed
    THEN [retval |-> unchanged, list_after |-> self.list_after, result |-> "unchanged",
          new_name |-> "", error |-> "neither renamed nor deleted"]
    ELSE IF reply.is_deleted
    THEN [retval |-> [self.retval EXCEPT !.removed = Append(@, item_before)],
          list_after |-> self.list_after, result |-> "removed",
          new_name |-> "", error |-> ""]
    ELSE IF new_name_according_to_llm = ""
    THEN [retval |-> unchanged, list_after |-> self.list_after, result |-> "unchanged",
          new_name |-> "", error |-> "did not provide a new name"]
    ELSE IF matching = <<>>
    THEN [retval |-> unchanged, list_after |-> self.list_after, result |-> "unchanged",
          new_name |-> "", error |-> "no matching item was found"]
    ELSE LET name_of_matched_item == matching[1] IN
         [retval |-> [self.retval EXCEPT
                          !.renamed = Append(@, <<item_before, name_of_matched_item>>)],
          list_after |-> _remove_items_by_name(self.list_after, name_of_matched_item),
          result |-> "renamed", new_name |-> name_of_matched_item, error |-> ""]

\* lines 508-535: the same for an item of the after list
ClassifyAfter(self, item_after, is_added) ==
    IF is_added
    THEN [retval |-> [self.retval EXCEPT !.added = Append(@, item_after)],
          list_after |-> self.list_after, result |-> "added",
          new_name |-> "", error |-> ""]
    ELSE [retval |-> self.retval, list_after |-> self.list_after, result |-> "unchanged",
          new_name |-> "", error |-> ""]

\* One pass of either loop for item: the start event, the try block, which
\* ends in the classification body unless a submit raised (failed), the
\* except clause, the step to the next item.
Iterate(self, on_comparing_item, is_from_before_list, item, failed, body, raises) ==
    LET i_item == self.i_item
        Left(list_after, done) ==
            IF is_from_before_list
            THEN Len(self.list_before) - (i_item + done) + Len(list_after)
            ELSE Len(list_after) - (i_item + done)
        started ==
            IF on_comparing_item
            THEN [self EXCEPT !.events =
                     Append(@, Event(item, is_from_before_list, TRUE, "unchanged", "", "",
                                     self.total_processed_items,
                                     Left(self.list_after, 0)))]
            ELSE self
    IN
    IF on_comparing_item /\ raises.start
    THEN [started EXCEPT !.pc = "error", !.raised = "CallbackError",
                         !.callback_raised = TRUE]
    ELSE
    LET handed == [started EXCEPT !.handed = Append(@, item)]
        tried ==
            IF failed THEN handed
            ELSE [handed EXCEPT
                     !.retval = body.retval,
                     !.list_after = body.list_after,
                     !.total_processed_items = Processed(@),
                     !.events =
                         IF on_comparing_item
                         THEN Append(@, Event(item, is_from_before_list, FALSE,
                                              body.result, body.new_name, body.error,
                                              Processed(handed.total_processed_items),
                                              Left(body.list_after, 1)))
                         ELSE @]
        caught == failed \/ (on_comparing_item /\ raises.finish)
        handled ==
            [tried EXCEPT
                !.retval.unchanged = IF is_from_before_list THEN Append(@, item) ELSE @,
                !.total_processed_items = Processed(@),
                !.callback_raised = @ \/ ~failed,
                !.events =
                    IF on_comparing_item
                    THEN Append(@, Event(item, is_from_before_list, FALSE, "unchanged", "",
                                         "LLM processing failed",
                                         Processed(tried.total_processed_items),
                                         Left(tried.list_after, 1)))
                    ELSE @]
        after == IF caught THEN handled ELSE tried
    IN IF caught /\ on_comparing_item /\ raises.again
       THEN [after EXCEPT !.pc = "error", !.raised = "CallbackError",
                          !.callback_raised = TRUE]
       ELSE Advance([after EXCEPT !.i_item = i_item + 1])

\* lines 261-457: one pass of the loop over list_before
CompareBefore ==
    /\ call.fn = "compare_item_lists"
    /\ frame.pc = "before"
    /\ frame.i_item < Len(frame.list_before)
    /\ UNCHANGED <<heap, call, session_vars_but_heap>>
    /\ \E outcome \in BeforeOutcomes, raises \in CallbackRaises :
        /\ call.on_comparing_item \/ raises = CallbackReturns
        /\ LET item_before == frame.list_before[frame.i_item + 1]
           IN frame' = Iterate(frame, call.on_comparing_item, TRUE, item_before,
                               outcome.kind = "raise",
                               ClassifyBefore(frame, item_before, outcome), raises)

\* lines 459-554: one pass of the loop over list_after
CompareAfter ==
    /\ call.fn = "compare_item_lists"
    /\ frame.pc = "after"
    /\ frame.i_item < Len(frame.list_after)
    /\ UNCHANGED <<heap, call, session_vars_but_heap>>
    /\ \E outcome \in AfterOutcomes, raises \in CallbackRaises :
        /\ call.on_comparing_item \/ raises = CallbackReturns
        /\ LET item_after == frame.list_after[frame.i_item + 1]
           IN frame' = Iterate(frame, call.on_comparing_item, FALSE, item_after,
                               outcome = "raise",
                               ClassifyAfter(frame, item_after, outcome = "added"), raises)

\* lines 556-561: the result, its lists sorted and without repeats
CompareReturn ==
    /\ call.fn = "compare_item_lists"
    /\ frame.pc = "after"
    /\ frame.i_item >= Len(frame.list_after)
    /\ UNCHANGED <<heap, call, session_vars_but_heap>>
    /\ frame' = [frame EXCEPT
           !.pc = "returned",
           !.retval = [removed |-> SortedNames(NamesOf(frame.retval.removed)),
                       added |-> SortedNames(NamesOf(frame.retval.added)),
                       renamed |-> frame.retval.renamed,
                       unchanged |-> SortedNames(NamesOf(frame.retval.unchanged))]]

CompareNext ==
    \/ Prepare
    \/ CompareBefore
    \/ CompareAfter
    \/ CompareReturn

CompareSpec == CompareInit /\ [][CompareNext]_vars

(***************************************************************************)
(* Properties of a session.                                                *)
(***************************************************************************)
\* the cells two sets of values share
Shared(vs, ws) == Reach(heap, vs) \cap Reach(heap, ws)

\* C1: in every state of every run (before, during and after the call,
\* whether it returns, raises JSONSurgeryError or propagates an exception,
\* whatever the collaborator replies and the callbacks do with the values
\* handed to them) the caller's input object is structurally what it was
\* when the call was made.
C1_InputIsNeverMutated == ToTree(heap, input) = input_before

\* a run has returned a document that differs from the input
C1_ReturnedAnEditedDocument ==
    /\ pc = "returned"
    /\ input_before # Null
    /\ last_outcome = "kept"
    /\ ToTree(heap, result.value) # input_before

\* C2: the object a successful run returns shares no mutable sub-object
\* with a value the caller owns: neither with the input object nor with an
\* object a callback holds (the obj_corrected that on_validate_before_return
\* handed back among them).
C2_ReturnedObjectIsADistinctCopy ==
    pc = "returned" => Shared({result.value}, {input, caller_kept}) = {}

\* C3: while a batch is applied and verified the current snapshot stays what
\* it was before the batch, the operations touch nothing but the scratch
\* copy, and after a verification reply with should_we_keep_these_changes =
\* false the current snapshot is still the snapshot from before the batch.
C3_RejectedBatchNeverReplacesSnapshot ==
    /\ pc \in {"apply", "verify", "verify_json"} =>
           /\ ToTree(heap, obj) = batch_start
           /\ Shared({obj_modified}, {obj, input, caller_kept}) = {}
    /\ (pc = "top" /\ last_outcome = "rejected") => ToTree(heap, obj) = batch_start

\* a batch whose operations all applied has been rejected
C3_RejectedAnAppliedBatch ==
    /\ pc = "top"
    /\ last_outcome = "rejected"
    /\ ~batch_failed
    /\ ToTree(heap, obj) = batch_start

\* C4 as stated: after an iteration in which at least one operation of the
\* batch failed to apply, the current snapshot is the snapshot from before
\* the batch, whatever the verification reply is.
C4_FailedBatchNeverReplacesSnapshot ==
    (pc = "top" /\ last_outcome \in {"kept", "rejected"} /\ batch_failed)
        => ToTree(heap, obj) = batch_start

\* C4 as amended: the verification reply alone decides about a batch in
\* which at least one operation failed to apply.  With
\* should_we_keep_these_changes = false the current snapshot after the
\* iteration is the snapshot from before the batch; with true it is the
\* scratch copy, which holds the operations of the batch that did apply.
C4_FailedBatchReplacesSnapshotOnlyWhenKept ==
    [][(pc = "verify_json" /\ pc' = "top" /\ batch_failed) =>
          ToTree(heap', obj') = IF operation_last_was_successful'
                                THEN ToTree(heap, obj_modified)
                                ELSE batch_start]_vars

\* a batch with a failed operation has been kept and has changed the snapshot
C4_KeptAFailedBatch ==
    /\ pc = "top"
    /\ last_outcome = "kept"
    /\ batch_failed
    /\ ToTree(heap, obj) # batch_start

\* C5: a run returns only through the exit gate: in an iteration whose
\* formalization yielded no operation, with on_validate_before_return either
\* not configured or just called with no errors reported; never with a
\* batch at hand, never while the latest validation result holds errors.
C5_ReturnsOnlyThroughTheExitGate ==
    pc = "returned" =>
        /\ exit_gate.attempted
        /\ modifications = <<>>
        /\ obj_modified = Null
        /\ exit_gate.errors = <<>>
        /\ exit_gate.validated = options.on_validate_before_return

\* a run has returned after a failed exit attempt and a validation without errors
C5_ReturnedAfterValidation ==
    /\ pc = "returned"
    /\ exit_gate.validated
    /\ last_outcome = "validation_failed"

\* C6 as stated: a non-empty error list at an exit attempt neither returns
\* nor raises in that iteration, appends exactly one history entry holding
\* every reported error and marks the last operation failed; the iteration
\* that follows asks the collaborator to propose again.
C6_FailedExitProposesAgain ==
    [][/\ (pc = "formalize" /\ exit_gate'.errors # <<>>) =>
              /\ pc' = "top"
              /\ result' = result
              /\ num_iterations' = num_iterations
              /\ operations_done_so_far' = Append(operations_done_so_far, operation_last')
              /\ operation_last'.errors = exit_gate'.errors
              /\ ~operation_last_was_successful'
       /\ (pc = "top" /\ last_outcome = "validation_failed" /\ pc' # "top") =>
              pc' = "propose"]_vars

\* C6 as amended: the same, but the iteration that follows asks the
\* collaborator to propose again only if its top lets it: there
\* on_work_in_progress may raise (the exception propagates) and a budget
\* may be exceeded (JSONSurgeryError is raised).
C6_FailedExitGoesOnToAFurtherIteration ==
    [][/\ (pc = "formalize" /\ exit_gate'.errors # <<>>) =>
              /\ pc' = "top"
              /\ result' = result
              /\ num_iterations' = num_iterations
              /\ operations_done_so_far' = Append(operations_done_so_far, operation_last')
              /\ operation_last'.errors = exit_gate'.errors
              /\ ~operation_last_was_successful'
       /\ (pc = "top" /\ last_outcome = "validation_failed" /\ pc' # "top") =>
              /\ num_iterations' = num_iterations + 1
              /\ \/ pc' = "propose"
                 \/ /\ pc' = "error"
                    /\ result'.kind = "CallbackError"
                    /\ options.on_work_in_progress
                 \/ /\ pc' = "raised"
                    /\ result'.kind = "JSONSurgeryError"
                    /\ \/ OptionTruthy(options.give_up_after_seconds)
                       \/ TooMany(options.give_up_after_iterations, num_iterations')]_vars

\* after a failed exit with two errors the collaborator is asked to propose again
C6_ProposingAfterAFailedExit ==
    /\ pc = "propose"
    /\ last_outcome = "validation_failed"
    /\ ~operation_last_was_successful
    /\ operation_last.errors = <<"e1", "e2">>

\* C7: a replacement a callback supplies becomes the current snapshot: the
\* value on_work_in_progress returned (not None) is what the iteration
\* proposes about, copies for its batch and attaches to a budget error; the
\* obj_corrected of on_validate_before_return is the snapshot the next
\* iteration starts from when errors came with it, and the object returned
\* when none did.
C7_CallbackReplacementTakesEffect ==
    /\ (wip.replaced /\ pc \in {"propose", "formalize"}) =>
           ToTree(heap, obj) = JsonRoundTrip(wip.returned)
    /\ (wip.replaced /\ pc \in {"apply", "verify", "verify_json"}) =>
           batch_start = JsonRoundTrip(wip.returned)
    /\ (wip.replaced /\ pc = "raised") => raised_from = JsonRoundTrip(wip.returned)
    /\ (exit_gate.has_corrected /\ pc = "top") => ToTree(heap, obj) = exit_gate.corrected
    /\ (exit_gate.has_corrected /\ pc = "returned") =>
           /\ result.value = obj
           /\ ~caller_poked => ToTree(heap, result.value) = exit_gate.corrected

\* a run replaced the snapshot at the top of an iteration and returned the
\* obj_corrected of the exit gate, which differs from it
C7_ReturnedTheCorrectedObject ==
    /\ pc = "returned"
    /\ wip.replaced
    /\ exit_gate.has_corrected
    /\ ~caller_poked
    /\ exit_gate.corrected # JsonRoundTrip(wip.returned)
    /\ ToTree(heap, result.value) = exit_gate.corrected

\* C8 as stated: with give_up_after_iterations = N >= 1 the top of
\* iteration N+1 raises JSONSurgeryError with the iteration-limit message.
C8_TopOfIterationAfterTheBudgetRaisesIterationLimit ==
    [][(/\ pc = "top"
        /\ OptionTruthy(options.give_up_after_iterations)
        /\ num_iterations = options.give_up_after_iterations.v
        /\ pc' # "top") =>
           /\ pc' = "raised"
           /\ result'.kind = "JSONSurgeryError"
           /\ result'.message = "iterations"]_vars

\* C8 as amended: with give_up_after_iterations = N >= 1 the collaborator is
\* never asked to propose more than N times, and the top of iteration N+1
\* makes no collaborator call: unless on_work_in_progress raises there, it
\* raises JSONSurgeryError, with the time-limit message when
\* give_up_after_seconds is exceeded too and the iteration-limit message
\* otherwise.
C8_IterationBudgetStopsTheSession ==
    /\ [](OptionTruthy(options.give_up_after_iterations) =>
              n_propose <= options.give_up_after_iterations.v)
    /\ [][(/\ pc = "top"
           /\ OptionTruthy(options.give_up_after_iterations)
           /\ num_iterations = options.give_up_after_iterations.v
           /\ pc' # "top") =>
              /\ n_propose' = n_propose
              /\ \/ /\ pc' = "error"
                    /\ result'.kind = "CallbackError"
                    /\ options.on_work_in_progress
                 \/ /\ pc' = "raised"
                    /\ result'.kind = "JSONSurgeryError"
                    /\ \/ result'.message = "iterations"
                       \/ /\ result'.message = "time"
                          /\ OptionTruthy(options.give_up_after_seconds)]_vars

\* C36: at the top of every iteration after the first on_work_in_progress
\* runs first, then the seconds budget is checked, then the iteration
\* budget: the callback has been invoked in the iteration that gives up too
\* (once per iteration after the first), the snapshot of the budget error
\* is the callback's replacement when it gave one, the time-limit error is
\* raised exactly when the seconds budget is exceeded, also when the
\* iteration budget is exceeded too, and an exception of the callback
\* pre-empts both budget errors.
C36_HousekeepingOrder ==
    /\ [](pc = "raised" =>
            /\ options.on_work_in_progress =>
                  (wip.called /\ n_wip = num_iterations - 1)
            /\ wip.replaced =>
                  ToTree(heap, result.value) = JsonRoundTrip(wip.returned)
            /\ (/\ options.give_up_after_seconds.set
                /\ options.give_up_after_seconds.v # 0
                /\ wip.seconds_elapsed > options.give_up_after_seconds.v) <=>
                  result.message = "time"
            /\ result.message = "iterations" =>
                  (/\ options.give_up_after_iterations.set
                   /\ options.give_up_after_iterations.v # 0
                   /\ num_iterations > options.give_up_after_iterations.v))
    /\ [][(pc = "top" /\ num_iterations >= 1 /\ options.on_work_in_progress
            /\ pc' # "top") =>
              /\ n_wip' = n_wip + 1
              /\ callback_raised' = "on_work_in_progress" =>
                    (pc' = "error" /\ result'.kind = "CallbackError")]_vars

\* both budgets were exceeded in the iteration that gave up, after the
\* callback had replaced the snapshot
C36_BothBudgetsExceeded ==
    /\ pc = "raised"
    /\ wip.called
    /\ wip.replaced
    /\ options.give_up_after_seconds = Given(1)
    /\ wip.seconds_elapsed = 2
    /\ options.give_up_after_iterations = Given(1)
    /\ num_iterations = 2
    /\ result.message = "time"

\* C38: a budget option that is 0 behaves like an absent one: with
\* give_up_after_iterations = 0 the iteration-limit error is never raised,
\* with give_up_after_seconds = 0 the time-limit error is never raised, and
\* with each of the two options 0 or absent the housekeeping of an
\* iteration ends in a budget error never.
C38_ZeroBudgetIsNoBudget ==
    /\ options.give_up_after_iterations = Given(0) =>
          ~(pc = "raised" /\ result.message = "iterations")
    /\ options.give_up_after_seconds = Given(0) =>
          ~(pc = "raised" /\ result.message = "time")
    /\ (/\ options.give_up_after_iterations \in {Absent, Given(0)}
        /\ options.give_up_after_seconds \in {Absent, Given(0)}) =>
          pc # "raised"

\* with both budgets 0 the second iteration is past its housekeeping
C38_SecondIterationWithZeroBudgets ==
    /\ options.give_up_after_iterations = Given(0)
    /\ options.give_up_after_seconds = Given(0)
    /\ num_iterations = 2
    /\ pc = "propose"
    /\ status.given

\* C39: every iteration that does not end the session appends exactly one
\* entry to the operation history (DONE for a kept batch, FAILED for a
\* rejected one, or the validation failure), and no other step changes the
\* history; so at every status report the history length is the iteration
\* count minus one and the two numbers reported are equal.
C39_OneHistoryEntryPerIteration ==
    /\ [](status.given =>
            /\ status.operations = status.iterations
            /\ status.iterations = num_iterations - 1
            /\ status.iterations >= 1)
    /\ [](pc \in {"propose", "formalize", "apply", "verify", "verify_json"} =>
            Len(operations_done_so_far) = num_iterations - 1)
    /\ [][IF pc \in {"formalize", "verify_json"} /\ pc' = "top"
          THEN /\ Len(operations_done_so_far') = Len(operations_done_so_far) + 1
               /\ SubSeq(operations_done_so_far', 1, Len(operations_done_so_far))
                      = operations_done_so_far
               /\ operation_last' = operations_done_so_far'[Len(operations_done_so_far')]
               /\ \/ last_outcome' = "kept" /\ operation_last'.kind = "DONE"
                  \/ last_outcome' = "rejected" /\ operation_last'.kind = "FAILED"
                  \/ /\ last_outcome' = "validation_failed"
                     /\ operation_last'.kind = "ERROR: Validation failure on attempted exit."
          ELSE operations_done_so_far' = operations_done_so_far]_vars

\* the status report that follows a rejected batch
C39_StatusAfterARejectedBatch ==
    /\ status.given
    /\ pc = "propose"
    /\ last_outcome = "rejected"
    /\ status.operations = 1
    /\ status.iterations = 1

\* the iteration limit has been raised after exactly N proposals
C8_RaisedTheIterationLimit ==
    /\ pc = "raised"
    /\ result.message = "iterations"
    /\ options.give_up_after_iterations.v >= 1
    /\ n_propose = options.give_up_after_iterations.v

\* C9: the obj of a budget error is structurally the current snapshot at
\* the raise, and it is a copy: it shares nothing with the snapshot, the
\* input or an object the caller holds, so that no later mutation of those
\* changes it.
C9_BudgetErrorCarriesACopyOfTheSnapshot ==
    pc = "raised" =>
        /\ result.kind = "JSONSurgeryError"
        /\ ToTree(heap, result.value) = raised_from
        /\ Shared({result.value}, {obj, input, caller_kept}) = {}

\* after the raise the caller has mutated the object that was passed to
\* the error
C9_SnapshotMutatedAfterTheRaise ==
    /\ pc = "raised"
    /\ caller_poked
    /\ caller_kept = obj
    /\ ToTree(heap, obj) # raised_from

\* C10: a session with a positive give_up_after_iterations ends (it
\* returns, raises JSONSurgeryError or propagates an error), whatever the
\* collaborator replies and the callbacks give back, as long as every call
\* of them returns.
C10_BudgetedTermination ==
    OptionTruthy(options.give_up_after_iterations) ~> Ended

\* a session that nothing else stopped has been ended by the iteration budget
C10_EndedByTheIterationBudget ==
    /\ pc = "raised"
    /\ result.message = "iterations"
    /\ num_iterations = options.give_up_after_iterations.v + 1
    /\ ~options.on_validate_before_return
    /\ ~OptionTruthy(options.give_up_after_seconds)

(***************************************************************************)
(* Callbacks and the loop over a batch.                                    *)
(***************************************************************************)
\* C11: an exception raised by on_work_in_progress or by
\* on_validate_before_return leaves json_surgery as that exception: the step
\* in which the callback raises ends the session with the callback's
\* exception as its outcome, and from then on no request is submitted to the
\* collaborator, no callback is called, no per-operation report is added and
\* the outcome stays what it is.
C11_CallbackExceptionAbortsTheSession ==
    [][ callback_raised' # "" =>
          /\ pc' = "error"
          /\ result' = Exception("CallbackError")
          /\ callback_raised # "" =>
                /\ callback_raised' = callback_raised
                /\ n_submit' = n_submit
                /\ n_wip' = n_wip
                /\ n_validate' = n_validate
                /\ n_propose' = n_propose
                /\ op_reports' = op_reports
                /\ num_iterations' = num_iterations ]_vars

\* a callback raised in the second iteration, after a batch had been
\* applied, and the caller went on after the call
C11_CallerWentOnAfterACallbackRaised ==
    /\ callback_raised # ""
    /\ num_iterations = 2
    /\ caller_poked

\* C12: on_work_in_progress is called once at the top of every iteration
\* after the first and never on the first: when the callback is configured,
\* the number of its calls is the number of iterations started minus one;
\* during the first iteration it has not been called.
C12_WorkInProgressOncePerLaterIteration ==
    /\ num_iterations = 0 => n_wip = 0
    /\ num_iterations = 1 => n_wip = 0 /\ ~wip.called
    /\ (options.on_work_in_progress /\ num_iterations >= 1) =>
            n_wip = num_iterations - 1
    /\ ~options.on_work_in_progress => n_wip = 0

\* a run that edits in iteration 1 and exits in iteration 2
C12_EditedThenExited ==
    /\ options.on_work_in_progress
    /\ pc = "returned"
    /\ num_iterations = 2
    /\ operations_done_so_far = <<Entry("DONE", <<>>)>>
    /\ n_wip = 1

\* C13: a failing operation does not abort its batch: the reports of the
\* loop are, in order, one per modification of the batch attempted so far,
\* the modifications still to attempt are the rest of the batch, the
\* verification starts only when every modification has its report, and a
\* pass of the loop never ends the session.
C13_EveryOperationOfABatchIsAttemptedOnce ==
    /\ [](pc \in {"apply", "verify", "verify_json"} =>
            /\ batch = [i \in 1..Len(op_reports) |-> op_reports[i].modification]
                          \o modifications
            /\ pc = "apply" => modifications # <<>>
            /\ pc \in {"verify", "verify_json"} => modifications = <<>>
            /\ batch_failed = (\E i \in 1..Len(op_reports) : ~op_reports[i].applied))
    /\ [][pc = "apply" =>
            /\ pc' \in {"apply", "verify"}
            /\ result' = NoResult
            /\ Len(op_reports') = Len(op_reports) + 1]_vars

\* the first modification of a batch failed and the second was applied
C13_AppliedAfterAFailure ==
    /\ pc = "verify"
    /\ Len(op_reports) = 2
    /\ ~op_reports[1].applied
    /\ op_reports[2].applied

(***************************************************************************)
(* Properties of one modification.  They compare the structure of the      *)
(* scratch copy before the last pass of the loop (op_before) with its      *)
(* structure after it.                                                     *)
(***************************************************************************)
\* the subtree of t at a path of keys and non-negative indices
RECURSIVE TreeAt(_, _)
TreeAt(t, path) ==
    IF path = <<>> THEN [ok |-> TRUE, t |-> t]
    ELSE LET key == Head(path) IN
         IF t.k = "dict" /\ key \in DOMAIN t.f
         THEN TreeAt(t.f[key], Tail(path))
         ELSE IF t.k = "list" /\ key.k = "num" /\ key.n >= 0 /\ key.n < Len(t.items)
         THEN TreeAt(t.items[key.n + 1], Tail(path))
         ELSE [ok |-> FALSE, t |-> Null]

\* t with the subtree at an existing path replaced
RECURSIVE TreeReplace(_, _, _)
TreeReplace(t, path, new) ==
    IF path = <<>> THEN new
    ELSE LET key == Head(path) IN
         IF t.k = "dict"
         THEN [t EXCEPT !.f[key] = TreeReplace(@, Tail(path), new)]
         ELSE [t EXCEPT !.items[key.n + 1] = TreeReplace(@, Tail(path), new)]

\* the value a modification carries, as a tree
ValueTree(before, data) ==
    IF data.t = "inline_value"
    THEN LET u == _unpack_value_from_set_value_schema(data.inline_value)
         IN [ok |-> u.ok, t |-> u.v]
    ELSE IF data.t = "json_path_of_copy_source"
    THEN TreeAt(before, data.json_path_of_copy_source)
    ELSE [ok |-> TRUE, t |-> Null]

After == ToTree(heap, obj_modified)
Attempted == pc \in {"apply", "verify"} /\ op_reports # <<>>
LastReport == op_reports[Len(op_reports)]
LastOp == LastReport.modification
\* the parent the last modification names, in the document before it (none
\* when the modification lacks json_path_of_parent)
ParentBefore ==
    IF LastOp.has_path THEN TreeAt(op_before, LastOp.json_path_of_parent)
    ELSE [ok |-> FALSE, t |-> Null]
ParentAfter == TreeAt(After, LastOp.json_path_of_parent)
LastValue == ValueTree(op_before, LastOp.data)
\* nothing outside the parent of the last modification has changed
OnlyParentChanged ==
    /\ ParentAfter.ok
    /\ After = TreeReplace(op_before, LastOp.json_path_of_parent, ParentAfter.t)
IsIndexOf(key, items) == key.k = "num" /\ key.n >= 0 /\ key.n < Len(items)

\* C14: assign on an object parent sets parent[key] to the value, creating
\* the key when absent and overwriting it when present, every other key of
\* the parent and every other node of the document as before; assign on an
\* array parent with an in-range index replaces exactly that element.
C14_AssignSetsExactlyOneEntry ==
    (Attempted /\ LastOp.action = "assign" /\ ParentBefore.ok /\ LastValue.ok) =>
        LET parent == ParentBefore.t
            key == LastOp.key_or_index
        IN /\ parent.k = "dict" =>
                /\ LastReport.applied
                /\ OnlyParentChanged
                /\ ParentAfter.t =
                       TDict([x \in DOMAIN parent.f \cup {key} |->
                                 IF x = key THEN LastValue.t ELSE parent.f[x]])
           /\ (parent.k = "list" /\ IsIndexOf(key, parent.items)) =>
                /\ LastReport.applied
                /\ OnlyParentChanged
                /\ ParentAfter.t =
                       TList([i \in 1..Len(parent.items) |->
                                 IF i = key.n + 1 THEN LastValue.t ELSE parent.items[i]])

\* the second modification of a batch overwrote a key that the first had
\* left in place
C14_OverwroteAKey ==
    /\ Attempted
    /\ Len(op_reports) = 2
    /\ LastOp.action = "assign"
    /\ LastReport.applied
    /\ ParentBefore.ok
    /\ ParentBefore.t.k = "dict"
    /\ LastOp.key_or_index \in DOMAIN ParentBefore.t.f
    /\ ParentAfter.t.f[LastOp.key_or_index] # ParentBefore.t.f[LastOp.key_or_index]

\* C15: delete on an object parent removes the key when present and is a
\* no-op without error when it is absent; delete on an array parent removes
\* the element at the index and shifts the later elements down, and fails,
\* the array and the rest of the document unchanged, when the index is out
\* of range.
C15_DeleteRemovesOrFails ==
    (Attempted /\ LastOp.action = "delete" /\ ParentBefore.ok /\ LastValue.ok) =>
        LET parent == ParentBefore.t
            key == LastOp.key_or_index
            index == PyInt(key)
        IN /\ parent.k = "dict" =>
                /\ LastReport.applied
                /\ OnlyParentChanged
                /\ ParentAfter.t = TDict([x \in DOMAIN parent.f \ {key} |-> parent.f[x]])
           /\ (parent.k = "list" /\ index.ok /\ index.v >= 0
                                  /\ index.v < Len(parent.items)) =>
                /\ LastReport.applied
                /\ OnlyParentChanged
                /\ ParentAfter.t =
                       TList([i \in 1..(Len(parent.items) - 1) |->
                                 IF i <= index.v THEN parent.items[i]
                                 ELSE parent.items[i + 1]])
           /\ (parent.k = "list" /\ index.ok
                   /\ (index.v >= Len(parent.items) \/ index.v < -Len(parent.items))) =>
                /\ ~LastReport.applied
                /\ After = op_before

\* a delete of an absent key went through and changed nothing, then an
\* out-of-range delete failed on an array with elements
C15_DeleteOutOfRangeFailed ==
    /\ Attempted
    /\ Len(op_reports) = 2
    /\ op_reports[1].modification.action = "delete"
    /\ op_reports[1].modification.key_or_index = Str("q")
    /\ op_reports[1].applied
    /\ op_before = batch_start
    /\ LastOp.action = "delete"
    /\ ~LastReport.applied
    /\ ParentBefore.ok
    /\ ParentBefore.t.k = "list"
    /\ Len(ParentBefore.t.items) > 0

\* C16: structural legality is enforced before mutation: append and insert
\* on an object parent, rename on an array parent, rename with an empty
\* new_key_name, an action outside {assign, delete, append, insert, rename},
\* and any operation whose parent resolves to null or to a primitive each
\* fail, and the scratch copy is as it was before the operation.
C16_IllegalOperationsFailAndChangeNothing ==
    LET action == LastOp.action
        OnObject == ParentBefore.ok /\ ParentBefore.t.k = "dict"
        OnArray == ParentBefore.ok /\ ParentBefore.t.k = "list"
        OnOther == ParentBefore.ok /\ ParentBefore.t.k \notin {"dict", "list"}
    IN (/\ Attempted
        /\ \/ action \in {"append", "insert"} /\ OnObject
           \/ action = "rename" /\ OnArray
           \/ action = "rename" /\ LastOp.new_key_name = ""
           \/ action \notin {"assign", "delete", "append", "insert", "rename"}
           \/ OnOther)
       => /\ ~LastReport.applied
          /\ After = op_before

\* after a modification that was applied, a rename without a new name failed
C16_RenameWithoutANameFailed ==
    /\ Attempted
    /\ Len(op_reports) = 2
    /\ op_reports[1].applied
    /\ LastOp.action = "rename"
    /\ LastOp.new_key_name = ""
    /\ ParentBefore.ok
    /\ LastOp.key_or_index \in DOMAIN ParentBefore.t.f
    /\ ~LastReport.applied

\* C17: insert at index i on an array of length n with 0 <= i <= n yields
\* an array of length n + 1 whose element i is the value, whose elements
\* before i are unchanged and whose elements from i on are the old ones
\* shifted by one; append yields an array whose last element is the value
\* and whose first n elements are unchanged.  Nothing else in the document
\* changes.
C17_InsertAndAppendKeepTheOtherElements ==
    (/\ Attempted
     /\ LastOp.action \in {"insert", "append"}
     /\ ParentBefore.ok
     /\ ParentBefore.t.k = "list"
     /\ LastValue.ok) =>
        LET old == ParentBefore.t.items
            n == Len(old)
            index == PyInt(LastOp.key_or_index)
            i == IF LastOp.action = "append" THEN n ELSE index.v
        IN (LastOp.action = "insert" => (index.ok /\ 0 <= index.v /\ index.v <= n)) =>
               /\ LastReport.applied
               /\ OnlyParentChanged
               /\ ParentAfter.t.k = "list"
               /\ Len(ParentAfter.t.items) = n + 1
               /\ ParentAfter.t.items[i + 1] = LastValue.t
               /\ \A j \in 1..i : ParentAfter.t.items[j] = old[j]
               /\ \A j \in (i + 1)..n : ParentAfter.t.items[j + 1] = old[j]

\* an insert between two elements of an array
C17_InsertedInTheMiddle ==
    /\ Attempted
    /\ LastOp.action = "insert"
    /\ LastReport.applied
    /\ ParentBefore.ok
    /\ ParentBefore.t.k = "list"
    /\ Len(ParentBefore.t.items) >= 2
    /\ LastOp.key_or_index = Num(1)
    /\ ParentAfter.t.items[1] = ParentBefore.t.items[1]
    /\ ParentAfter.t.items[3] = ParentBefore.t.items[2]

\* C18: rename preserves the value: for an object parent that has key k and
\* any non-empty new_key_name n, after the rename the parent maps n to the
\* value k had before, k no longer names the old entry (it is gone unless
\* it is n itself), and all other keys are unchanged.
C18_RenamePreservesTheValue ==
    (/\ Attempted
     /\ LastOp.action = "rename"
     /\ LastOp.new_key_name # ""
     /\ LastValue.ok
     /\ ParentBefore.ok
     /\ ParentBefore.t.k = "dict"
     /\ LastOp.key_or_index \in DOMAIN ParentBefore.t.f) =>
        LET old == ParentBefore.t.f
            k == LastOp.key_or_index
            n == Str(LastOp.new_key_name)
        IN /\ LastReport.applied
           /\ OnlyParentChanged
           /\ ParentAfter.t.k = "dict"
           /\ n \in DOMAIN ParentAfter.t.f
           /\ ParentAfter.t.f[n] = old[k]
           /\ k # n => k \notin DOMAIN ParentAfter.t.f
           /\ \A x \in (DOMAIN old \cup DOMAIN ParentAfter.t.f) \ {k, n} :
                 /\ x \in DOMAIN old
                 /\ x \in DOMAIN ParentAfter.t.f
                 /\ ParentAfter.t.f[x] = old[x]

\* C40: rename on an object parent from which key_or_index is absent does
\* not fail: it is reported as applied, afterwards the parent maps
\* new_key_name to null, and every other key is unchanged.
C40_RenameOfAnAbsentKeyAddsNull ==
    (/\ Attempted
     /\ LastOp.action = "rename"
     /\ LastOp.new_key_name # ""
     /\ LastValue.ok
     /\ ParentBefore.ok
     /\ ParentBefore.t.k = "dict"
     /\ LastOp.key_or_index \notin DOMAIN ParentBefore.t.f) =>
        (LET old == ParentBefore.t.f
             n == Str(LastOp.new_key_name)
         IN /\ LastReport.applied
            /\ OnlyParentChanged
            /\ ParentAfter.t.k = "dict"
            /\ n \in DOMAIN ParentAfter.t.f
            /\ ParentAfter.t.f[n] = Null
            /\ DOMAIN ParentAfter.t.f \ {n} = DOMAIN old \ {n}
            /\ \A x \in DOMAIN old \ {n} : ParentAfter.t.f[x] = old[x])

\* the same for a new_key_name that differs from key_or_index
C40_RenameOfAnAbsentKeyToAnotherName ==
    (/\ Attempted
     /\ LastOp.action = "rename"
     /\ LastOp.new_key_name # ""
     /\ Str(LastOp.new_key_name) # LastOp.key_or_index
     /\ LastValue.ok
     /\ ParentBefore.ok
     /\ ParentBefore.t.k = "dict"
     /\ LastOp.key_or_index \notin DOMAIN ParentBefore.t.f) =>
        (LET old == ParentBefore.t.f
             n == Str(LastOp.new_key_name)
         IN /\ LastReport.applied
            /\ OnlyParentChanged
            /\ ParentAfter.t.k = "dict"
            /\ n \in DOMAIN ParentAfter.t.f
            /\ ParentAfter.t.f[n] = Null
            /\ DOMAIN ParentAfter.t.f \ {n} = DOMAIN old \ {n}
            /\ \A x \in DOMAIN old \ {n} : ParentAfter.t.f[x] = old[x])

\* a rename of an absent key to its own name was reported as applied
C40_RenamedAnAbsentKeyToItself ==
    /\ Attempted
    /\ LastOp.action = "rename"
    /\ LastOp.key_or_index = Str("q")
    /\ LastOp.new_key_name = "q"
    /\ ParentBefore.ok
    /\ ParentBefore.t.k = "dict"
    /\ Str("q") \notin DOMAIN ParentBefore.t.f
    /\ LastReport.applied
    /\ After = op_before

\* the cells of the document at v that a reference in a cell of the
\* document leads to, one entry per reference
References(h, v) ==
    LET cells == Reach(h, {v})
    IN UNION { IF h[l].k = "dict"
               THEN { <<l, key, h[l].f[key].loc>> :
                         key \in {x \in DOMAIN h[l].f : IsRef(h[l].f[x])} }
               ELSE { <<l, i, h[l].items[i].loc>> :
                         i \in {j \in 1..Len(h[l].items) : IsRef(h[l].items[j])} }
             : l \in cells }
\* every dict and list of the document is referred to from one place only
IsTree(h, v) ==
    /\ \A r \in References(h, v) : r[3] # v.loc
    /\ \A r1, r2 \in References(h, v) : r1[3] = r2[3] => r1 = r2

\* C19: copy-source edits never alias: at every point of the loop over a
\* batch no two paths of the scratch copy lead to the same dict or list,
\* and an operation that was applied changed nothing outside the parent it
\* names, so an edit under a copied subtree leaves the subtree it was copied
\* from as it was, and the other way round.
C19_WorkingDocumentIsATree ==
    /\ (pc \in {"apply", "verify"} /\ IsRef(obj_modified)) => IsTree(heap, obj_modified)
    /\ (Attempted /\ LastReport.applied /\ ParentBefore.ok) => OnlyParentChanged

\* a subtree was copied, then a key under the copy was assigned, and the
\* subtree it was copied from is as it was
C19_EditedUnderACopy ==
    /\ Attempted
    /\ Len(op_reports) = 2
    /\ op_reports[1].applied
    /\ op_reports[1].modification.data = DataCopy(<<Str("a")>>)
    /\ op_reports[1].modification.key_or_index = Str("c")
    /\ LastReport.applied
    /\ LastOp.json_path_of_parent = <<Str("c")>>
    /\ TreeAt(After, <<Str("a")>>).t = batch_start.f[Str("a")]
    /\ TreeAt(After, <<Str("c")>>).t # batch_start.f[Str("a")]

\* C20: keys listed in skipped_keys are hidden from editing: an operation
\* leaves every entry that its parent stores under a skipped key in place,
\* with the value it had.
C20_SkippedKeysAreNeverEdited ==
    (Attempted /\ ParentBefore.ok /\ ParentBefore.t.k = "dict") =>
        \A key \in options.skipped_keys \cap DOMAIN ParentBefore.t.f :
            /\ ParentAfter.ok
            /\ ParentAfter.t.k = "dict"
            /\ key \in DOMAIN ParentAfter.t.f
            /\ ParentAfter.t.f[key] = ParentBefore.t.f[key]

(***************************************************************************)
(* The conversation of a session.                                          *)
(***************************************************************************)
InIteration == pc \in {"propose", "formalize", "apply", "verify", "verify_json"}

\* C23: a no-op run: when the first formalization yields zero operations
\* and no validation hook reports errors or a correction, json_surgery
\* returns a value structurally equal to the input document, which is not
\* the input object and shares no dict or list with it, and
\* on_work_in_progress has not been called.
C23_NoOpRunReturnsAnEqualCopy ==
    (/\ pc = "returned"
     /\ num_iterations = 1
     /\ exit_gate.errors = <<>>
     /\ ~exit_gate.has_corrected) =>
        /\ ToTree(heap, result.value) = input_before
        /\ ToTree(heap, input) = input_before
        /\ IsRef(input) => /\ IsRef(result.value)
                            /\ result.value # input
                            /\ Shared({result.value}, {input}) = {}
        /\ n_wip = 0
        /\ ~wip.called

\* a no-op run of a session that has both callbacks, the validation hook
\* having reported nothing
C23_NoOpRunWithCallbacks ==
    /\ pc = "returned"
    /\ num_iterations = 1
    /\ options.on_work_in_progress
    /\ options.on_validate_before_return
    /\ exit_gate.validated
    /\ exit_gate.errors = <<>>
    /\ ~exit_gate.has_corrected
    /\ IsRef(input)

\* C24: the do-not-repeat warning is among the status messages of
\* iteration k > 1 if and only if iteration k - 1 ended in failure: its
\* batch was rejected by verification or its exit attempt failed
\* validation; after a kept batch the warning is absent.
C24_WarningIffThePreviousIterationFailed ==
    (InIteration /\ num_iterations > 1) =>
        /\ status.given
        /\ last_outcome \in {"kept", "rejected", "validation_failed"}
        /\ status.warned <=> last_outcome \in {"rejected", "validation_failed"}
        /\ last_outcome = "kept" => ~status.warned

\* an iteration that follows a failed exit attempt has the warning
C24_WarnedAfterAFailedExit ==
    /\ InIteration
    /\ num_iterations = 2
    /\ last_outcome = "validation_failed"
    /\ status.warned

\* C25: the operation history log is append-only: a step leaves the entries
\* it has where they are and as they are; in every iteration after the
\* first the status messages hold the whole log as it stands, which is
\* never empty then.
C25_HistoryLogIsAppendOnly ==
    /\ [][/\ Len(operations_done_so_far') >= Len(operations_done_so_far)
          /\ SubSeq(operations_done_so_far', 1, Len(operations_done_so_far))
                 = operations_done_so_far]_vars
    /\ []((InIteration /\ num_iterations > 1) =>
             /\ status.given
             /\ status.log = operations_done_so_far
             /\ status.log # <<>>)

\* the second iteration added an entry to a log that had one
C25_LogGrewInTheSecondIteration ==
    /\ pc = "top"
    /\ num_iterations = 2
    /\ Len(operations_done_so_far) = 2
    /\ status.given
    /\ status.log = <<operations_done_so_far[1]>>

\* C26: phase ordering: the planning request is the first request and the
\* only one of its kind, submitted before the first iteration; in an
\* iteration the requests are propose, formalize and then, only when the
\* formalization gave at least one operation and every operation of the
\* batch has been attempted, the two verification requests; the current
\* snapshot becomes the scratch copy only in the step of the structured
\* verification reply.
C26_PhaseOrdering ==
    /\ [](/\ \A i \in 1..Len(requests) : (requests[i] = "plan") <=> (i = 1)
          /\ num_iterations >= 1 => requests # <<>>
          /\ \A i \in 2..Len(requests) :
                /\ requests[i] = "propose" =>
                      requests[i - 1] \in {"plan", "formalize", "verify_json"}
                /\ requests[i] = "formalize" => requests[i - 1] = "propose"
                /\ requests[i] = "verify_text" => requests[i - 1] = "formalize"
                /\ requests[i] = "verify_json" => requests[i - 1] = "verify_text"
          /\ pc \in {"apply", "verify"} =>
                batch # <<>> /\ requests[Len(requests)] = "formalize"
          /\ pc = "verify_json" => requests[Len(requests)] = "verify_text")
    /\ [][/\ (requests' # requests /\ requests'[Len(requests')] = "plan") =>
               num_iterations = 0
          /\ (requests' # requests /\ requests'[Len(requests')] = "verify_text") =>
               /\ batch # <<>>
               /\ modifications = <<>>
               /\ Len(op_reports) = Len(batch)
          /\ (IsRef(obj_modified) /\ obj' = obj_modified /\ obj' # obj) =>
               requests' = Append(requests, "verify_json")]_vars

\* a batch was kept: the snapshot is what the scratch copy was, after the
\* five requests of the iteration
C26_KeptAfterTheVerification ==
    /\ pc = "top"
    /\ last_outcome = "kept"
    /\ requests = <<"plan", "propose", "formalize", "verify_text", "verify_json">>
    /\ ToTree(heap, obj) # batch_start

(***************************************************************************)
(* Properties of navigate_to_json_path.                                    *)
(***************************************************************************)
\* node[key] for a dict that has the key or a list that has the index
ChildOf(h, node, key) ==
    IF IsDict(h, node) /\ key \in DOMAIN h[node.loc].f
    THEN [ok |-> TRUE, v |-> h[node.loc].f[key]]
    ELSE IF IsList(h, node) /\ key.k = "num"
               /\ key.n >= -Len(h[node.loc].items) /\ key.n < Len(h[node.loc].items)
    THEN [ok |-> TRUE,
          v |-> h[node.loc].items[IF key.n >= 0 THEN key.n + 1
                                  ELSE Len(h[node.loc].items) + key.n + 1]]
    ELSE [ok |-> FALSE, v |-> Null]

\* the node a path leads to from a node, every element of the path being
\* a key or an index of the node it is applied to
RECURSIVE NodeAt(_, _, _)
NodeAt(h, node, path) ==
    IF path = <<>> THEN [ok |-> TRUE, v |-> node]
    ELSE LET c == ChildOf(h, node, Head(path)) IN
         IF c.ok THEN NodeAt(h, c.v, Tail(path)) ELSE [ok |-> FALSE, v |-> Null]

Navigated == call.fn = "navigate_to_json_path" /\ frame.pc = "done"
Front(path) == SubSeq(path, 1, Len(path) - 1)

\* C27: for the empty path navigate_to_json_path returns parent = none,
\* key_or_index = none and target = the root itself; for a non-empty path
\* that resolves, parent is the very node reached by the path without its
\* last element, key_or_index is the last element and target is
\* parent[key_or_index], also when that is null.
C27_NavigationReturnsParentKeyAndTarget ==
    Navigated =>
        LET json_path == call.json_path
            r == frame.result
        IN /\ json_path = <<>> =>
                /\ r.ok
                /\ r.path_parent = Null
                /\ r.path_key_or_index = Null
                /\ r.path_target = call.obj
           /\ (json_path # <<>> /\ NodeAt(heap, call.obj, json_path).ok) =>
                /\ r.ok
                /\ IsRef(r.path_parent)
                /\ r.path_parent = NodeAt(heap, call.obj, Front(json_path)).v
                /\ r.path_key_or_index = json_path[Len(json_path)]
                /\ r.path_target = ChildOf(heap, r.path_parent, json_path[Len(json_path)]).v

\* a path of three elements resolved to a null leaf
C27_ResolvedToANullLeaf ==
    /\ Navigated
    /\ Len(call.json_path) = 3
    /\ frame.result.ok
    /\ IsDict(heap, frame.result.path_parent)
    /\ frame.result.path_parent # call.obj
    /\ frame.result.path_target = Null

\* C28: whenever a path continues past a key or index that is absent from
\* the document, navigate_to_json_path fails with the 'Could not navigate
\* to path' error, which names the path element at which the traversal
\* could not continue (the absent element or the one after it).
C28_PastAnAbsentKeyCouldNotNavigate ==
    Navigated =>
        \A i \in 1..(Len(call.json_path) - 1) :
            LET before == NodeAt(heap, call.obj, SubSeq(call.json_path, 1, i - 1))
            IN (/\ before.ok
                /\ IsRef(before.v)
                /\ ~ChildOf(heap, before.v, call.json_path[i]).ok) =>
                   /\ ~frame.result.ok
                   /\ frame.result.err = "CouldNotNavigate"
                   /\ frame.result.at \in {call.json_path[i], call.json_path[i + 1]}

\* C32: when the transport call inside GptConversation.submit raises, the
\* exception propagates and the conversation is not mutated: the message
\* list and last_reply are what they were before submit was called, for
\* every way of calling submit.
C32_FailedSubmitLeavesTheConversationUnchanged ==
    (/\ call.fn \in {"submit", "submit_message"}
     /\ frame.sent # <<>>
     /\ frame.outcome.kind = "raised") =>
        /\ frame.outcome.exception = "TransportError"
        /\ frame.messages = frame.before.messages
        /\ frame.last_reply = frame.before.last_reply

\* the same for the calls of submit without a message to add
C32_FailedSubmitWithoutAMessage ==
    (/\ call.fn \in {"submit", "submit_message"}
     /\ frame.sent # <<>>
     /\ frame.outcome.kind = "raised"
     /\ (call.fn = "submit" => ~TreeTruthy(call.message))) =>
        /\ frame.outcome.exception = "TransportError"
        /\ frame.messages = frame.before.messages
        /\ frame.last_reply = frame.before.last_reply

\* the transport call of submit("hi") raised and the message stayed
C32_MessageKeptAfterAFailedSubmit ==
    /\ call.fn = "submit"
    /\ call.message = Str("hi")
    /\ frame.outcome.kind = "raised"
    /\ frame.outcome.exception = "TransportError"
    /\ frame.before.messages = <<[role |-> Str("user"), content |-> Str("hello")]>>
    /\ Len(frame.messages) = 2
    /\ frame.last_reply = Null

C33_SecondFinishEventAfterACallbackRaised ==
    /\ call.fn = "compare_item_lists"
    /\ frame.callback_raised
    /\ frame.pc = "returned"
    /\ Len(frame.events) = 3
    /\ ~frame.events[2].is_starting
    /\ ~frame.events[3].is_starting
    /\ frame.events[3].total_processed_so_far = 2

\* plain step-by-step lookup: value = value[element] for every element of
\* the path in turn, nothing else
RECURSIVE PlainLookup(_, _, _)
PlainLookup(h, node, path) ==
    IF path = <<>> THEN Ok(node)
    ELSE LET s == Subscript(h, node, Head(path)) IN
         IF s.ok THEN PlainLookup(h, s.v, Tail(path)) ELSE s

\* the value is one of the falsy JSON values
Falsy(h, v) ==
    \/ v \in {Null, Num(0), Str(""), Bool(FALSE)}
    \/ IsDict(h, v) /\ DOMAIN h[v.loc].f = {}
    \/ IsList(h, v) /\ h[v.loc].items = <<>>

\* C37 as stated: there is a document and a path that plain step-by-step
\* keyed/indexed lookup resolves but navigate_to_json_path rejects (among
\* the arguments a call can be made with).
C37_SomeValidPathIsRejected ==
    call = NoCall =>
        \E doc \in NavDocs, json_path \in NavPaths :
            LET a == Alloc(heap, doc)
            IN /\ PlainLookup(a.h, a.v, json_path).ok
               /\ ~navigate_to_json_path(a.h, a.v, json_path).ok

\* C37 as amended: a falsy value (null, 0, the empty string, false, an
\* empty object, an empty array) to which a further path element is to be
\* applied makes navigate_to_json_path fail with the 'Could not navigate to
\* path' error naming that element; plain lookup fails at the same element,
\* and every path that plain step-by-step lookup resolves is resolved by
\* navigate_to_json_path, to the same target.
C37_FalsyIntermediatesAreRejectedAndNoValidPathIs ==
    Navigated =>
        (LET json_path == call.json_path
             r == frame.result
             plain == PlainLookup(heap, call.obj, json_path)
         IN /\ \A i \in 1..Len(json_path) :
                  LET before == PlainLookup(heap, call.obj, SubSeq(json_path, 1, i - 1))
                  IN (before.ok /\ Falsy(heap, before.v)) =>
                        /\ ~r.ok
                        /\ r.err = "CouldNotNavigate"
                        /\ r.at = json_path[i]
                        /\ ~Subscript(heap, before.v, json_path[i]).ok
                        /\ ~plain.ok
            /\ plain.ok => (r.ok /\ r.path_target = plain.v)
            /\ r.ok => (plain.ok /\ r.path_target = plain.v))

\* a path went on past the number 0
C37_PathThroughZero ==
    /\ Navigated
    /\ call.json_path = <<Str("a"), Num(0)>>
    /\ PlainLookup(heap, call.obj, <<Str("a")>>) = Ok(Num(0))
    /\ ~frame.result.ok
    /\ frame.result.err = "CouldNotNavigate"

\* C34: per-operation atomicity: an operation that fails, for whatever
\* reason (unresolvable parent or copy-source path, undecodable inline
\* value, wrong container kind, out-of-range or non-integer array index,
\* missing field, unknown action), leaves the scratch copy exactly as it was
\* before that operation.
C34_FailedOperationsChangeNothing ==
    (Attempted /\ ~LastReport.applied) => After = op_before

\* an operation failed on an index out of range after another had changed
\* the scratch copy
C34_FailedAfterAnEdit ==
    /\ Attempted
    /\ Len(op_reports) = 2
    /\ op_reports[1].applied
    /\ ~LastReport.applied
    /\ LastReport.error = "IndexError"
    /\ After = op_before
    /\ After # batch_start

CopiesFrom(modification, path) ==
    /\ modification.data.t = "json_path_of_copy_source"
    /\ modification.data.json_path_of_copy_source = path
Deletes(modification, path) ==
    /\ modification.action = "delete"
    /\ modification.has_path
    /\ path = Append(modification.json_path_of_parent, modification.key_or_index)

C35_CopiedWhatTheBatchHadChanged ==
    /\ Attempted
    /\ Len(op_reports) = 2
    /\ op_reports[1].applied
    /\ op_reports[1].modification.json_path_of_parent = <<Str("a")>>
    /\ op_reports[1].modification.action = "assign"
    /\ LastOp = Modification(<<>>, Str("a"), "assign", "", DataCopy(<<Str("a"), Str("x")>>))
    /\ LastReport.applied
    /\ TreeAt(op_before, <<Str("a"), Str("x")>>).t # TreeAt(batch_start, <<Str("a"), Str("x")>>).t
    /\ After.f[Str("a")] = TreeAt(op_before, <<Str("a"), Str("x")>>).t

Twinned == call.fn = "json_surgery" /\ frame.pc = "twin"
\* lines 683-696: the text of the message about one modification
ObservationOf(report) ==
    IF report.applied THEN <<"Applied modification successfully.", report.modification>>
    ELSE <<"An error occurred while applying proposed modification:", report.text>>
\* lines 216, 434, 705: the document as it is shown
Shown(h, v) == placemarked_json_stringify(ToTree(h, v), 2, options.skipped_keys)

\* C21: values stored under skipped keys are hidden from the collaborator:
\* for two sessions whose input documents differ only in the values under
\* skipped keys and whose collaborator replies are the same, every message
\* submitted is the same in both: the rendering of the current document,
\* the message about each operation of the batch, applied or failed, and
\* the rendering of the document after the batch.
C21_SkippedValuesAreHiddenFromTheCollaborator ==
    Twinned =>
        /\ Shown(heap, obj) = Shown(frame.heap, frame.obj)
        /\ Len(op_reports) = Len(frame.op_reports)
        /\ \A i \in 1..Len(op_reports) :
               ObservationOf(op_reports[i]) = ObservationOf(frame.op_reports[i])
        /\ pc = "verify" => Shown(heap, obj_modified) = Shown(frame.heap, frame.obj_modified)

(***************************************************************************)
(* Properties of the decoding of value envelopes.                          *)
(***************************************************************************)
KnownTags == {"string_value", "numerical_value", "boolean_value", "null_value",
              "empty_object", "empty_array", "populated_array", "populated_object"}
\* the envelope and every envelope inside it carries a known tag
RECURSIVE Decodable(_)
Decodable(env) ==
    /\ env.tag \in KnownTags
    /\ env.tag = "populated_array" => \A i \in 1..Len(env.items) : Decodable(env.items[i])
    /\ env.tag = "populated_object" =>
           \A i \in 1..Len(env.pairs) : Decodable(env.pairs[i].value)
\* the native value of an envelope
RECURSIVE Native(_)
Native(env) ==
    IF env.tag \in {"string_value", "numerical_value", "boolean_value"} THEN env.v
    ELSE IF env.tag = "null_value" THEN Null
    ELSE IF env.tag = "empty_object" THEN TDict(EmptyFcn)
    ELSE IF env.tag = "empty_array" THEN TList(<<>>)
    ELSE IF env.tag = "populated_array"
    THEN TList([i \in 1..Len(env.items) |-> Native(env.items[i])])
    ELSE LET LastWith(key) == CHOOSE i \in 1..Len(env.pairs) :
                                  /\ Str(env.pairs[i].key) = key
                                  /\ \A j \in (i + 1)..Len(env.pairs) :
                                         Str(env.pairs[j].key) # key
         IN TDict([key \in {Str(env.pairs[i].key) : i \in 1..Len(env.pairs)} |->
                      Native(env.pairs[LastWith(key)].value)])

\* C29: decoding a tagged value envelope gives the native value of its tag
\* (string, number or boolean as given; null; a fresh empty object; a fresh
\* empty array; the list of the decoded items in order; the mapping from
\* each pair's key to its decoded value) and fails with a ValueError when
\* the envelope, or one inside it, carries none of the known tags; in a
\* batch that error fails the one operation only: the operation is reported
\* as failed, the document is as before it and no exception leaves the call.
C29_EnvelopesDecodeToNativeValues ==
    (Attempted /\ LastOp.data.t = "inline_value") =>
        LET env == LastOp.data.inline_value
        IN /\ Decodable(env) =>
                /\ LastValue.ok
                /\ LastValue.t = Native(env)
                /\ (/\ LastOp.action = "assign"
                    /\ ParentBefore.ok
                    /\ ParentBefore.t.k = "dict") =>
                       /\ LastReport.applied
                       /\ ParentAfter.t.f[LastOp.key_or_index] = Native(env)
                       /\ IsTree(heap, obj_modified)
                       /\ Shared({obj_modified}, {obj, input}) = {}
           /\ ~Decodable(env) =>
                /\ ~LastReport.applied
                /\ LastReport.error = "ValueError"
                /\ After = op_before
                /\ result = NoResult

\* an envelope of every tag was assigned after an operation had failed on an
\* envelope without a tag
C29_DecodedAfterAnUntaggedEnvelope ==
    /\ Attempted
    /\ Len(op_reports) = 2
    /\ ~Decodable(op_reports[1].modification.data.inline_value)
    /\ op_reports[1].error = "ValueError"
    /\ LastReport.applied
    /\ LastOp.key_or_index = Str("e")
    /\ ParentAfter.t.f[Str("e")] =
           TDict((Str("e") :> TList(<<>>))
                 @@ (Str("k") :> TList(<<Null, TDict(EmptyFcn), TDict(EmptyFcn)>>)))

(***************************************************************************)
(* Properties of placemarked_json_stringify.                               *)
(***************************************************************************)
\* the value without the entries of skipped keys, at every level
RECURSIVE Prune(_, _)
Prune(t, skipped_keys) ==
    IF t.k = "list" THEN TList([i \in 1..Len(t.items) |-> Prune(t.items[i], skipped_keys)])
    ELSE IF t.k = "dict"
    THEN TDict([key \in DOMAIN t.f \ skipped_keys |-> Prune(t.f[key], skipped_keys)])
    ELSE t

\* the paths of the entries and items of a value
RECURSIVE PathsOf(_)
PathsOf(t) ==
    IF t.k = "list"
    THEN UNION { {<<Num(i - 1)>>} \cup { <<Num(i - 1)>> \o q : q \in PathsOf(t.items[i]) }
                 : i \in 1..Len(t.items) }
    ELSE IF t.k = "dict"
    THEN UNION { {<<key>>} \cup { <<key>> \o q : q \in PathsOf(t.f[key]) }
                 : key \in DOMAIN t.f }
    ELSE {}

ThroughSkipped(path, skipped_keys) ==
    \E i \in 1..Len(path) : path[i] \in skipped_keys
Stringified == call.fn = "placemarked_json_stringify" /\ frame.pc = "done"
\* the tokens of the text
TokensOf(lines) == UNION { {lines[i].toks[j] : j \in 1..Len(lines[i].toks)}
                           : i \in 1..Len(lines) }
\* the entry at the path is rendered: with its path comment when it is an
\* item of an array or an object or array, with its key and value on one
\* line or on two consecutive lines otherwise
RenderedAt(lines, t, path) ==
    LET value == TreeAt(t, path).t
        last == path[Len(path)]
    IN IF last.k = "num" \/ IsNonPrimitive(value)
       THEN Comment(path) \in TokensOf(lines)
       ELSE \E i \in 1..Len(lines) :
               /\ lines[i].toks # <<>>
               /\ lines[i].toks[1] = KeyTok(last, ": ")
               /\ \/ Len(lines[i].toks) >= 2 /\ lines[i].toks[2] = Literal(value)
                  \/ /\ Len(lines[i].toks) = 1
                     /\ i < Len(lines)
                     /\ lines[i + 1].toks # <<>>
                     /\ lines[i + 1].toks[1] = Literal(value)

\* C22: placemarked_json_stringify omits every object entry whose key is in
\* skipped_keys at every nesting level, objects inside arrays included: no
\* key line and no path comment of the output names a skipped key and the
\* output is the one of the value without those entries, so no skipped
\* value appears; every other entry is rendered; the value given is not
\* modified.
C22_SkippedKeysAreOmittedAtEveryLevel ==
    Stringified =>
        LET lines == frame.result
            skipped_keys == call.skipped_keys
            t == call.before
        IN /\ \A tok \in TokensOf(lines) :
                /\ tok.t = "key" => tok.key \notin skipped_keys
                /\ tok.t = "//" => ~ThroughSkipped(tok.path, skipped_keys)
           /\ lines = placemarked_json_stringify(Prune(t, skipped_keys), call.indent, {})
           /\ \A path \in PathsOf(t) :
                ~ThroughSkipped(path, skipped_keys) => RenderedAt(lines, t, path)
           /\ ToTree(heap, call.obj) = t

\* a key was skipped in an object inside an array and its sibling rendered
C22_SkippedInsideAnArray ==
    /\ Stringified
    /\ call.skipped_keys = {Str("x")}
    /\ <<Str("l"), Num(0), Str("x")>> \in PathsOf(call.before)
    /\ \E i \in 1..Len(frame.result) :
           frame.result[i].toks = <<KeyTok(Str("t"), ": "), Literal(Bool(TRUE))>>

(***************************************************************************)
(* Properties of gpt_submit.                                               *)
(***************************************************************************)
Submitting == call.fn = "gpt_submit"
\* the attempt met an error that the loop retries
FailedRetryably(outcome) ==
    \/ outcome = "OpenAIError"
    \/ outcome = "plain text" /\ call.json_response
\* the attempt produced the value that gpt_submit returns
Succeeded(outcome) ==
    \/ outcome = "json text"
    \/ outcome = "plain text" /\ ~call.json_response

NonRetryable == {"AuthenticationError", "PermissionDeniedError", "AttributeError"}

C30_RetryBound ==
    Submitting =>
        LET create_calls == frame.create_calls
            n == Len(create_calls)
        IN /\ n <= call.retry_limit
           /\ \A i \in 1..n : Succeeded(create_calls[i]) =>
                  /\ i = n
                  /\ frame.pc = "returned"
           /\ frame.pc = "returned" => n >= 1 /\ Succeeded(create_calls[n])
           /\ (/\ frame.pc # "loop"
               /\ call.retry_limit > 0
               /\ n = call.retry_limit
               /\ \A i \in 1..n : FailedRetryably(create_calls[i])) =>
                  /\ frame.pc = "raised"
                  /\ frame.raised.attempt = n
                  /\ frame.raised.type = IF create_calls[n] = "OpenAIError"
                                         THEN "OpenAIError" ELSE "JSONDecodeError"
           /\ (frame.pc # "loop" /\ call.retry_limit = 0) =>
                  /\ n = 0
                  /\ frame.pc = "raised"
                  /\ frame.raised.type = "ValueError"

\* all attempts failed, with an OpenAIError and then a JSON decode error
C30_RaisedTheLastOfTwoKinds ==
    /\ Submitting
    /\ frame.pc = "raised"
    /\ call.retry_limit = MaxRetry
    /\ Len(frame.create_calls) = MaxRetry
    /\ frame.create_calls[1] = "OpenAIError"
    /\ frame.raised = Error("JSONDecodeError", MaxRetry)

====
